---------------------------- MODULE Spec2Model ----------------------------
(***************************************************************************)
(* Verification model of the mxp-agents runtime kernel (agent-kernel):     *)
(*   - lifecycle.rs : the agent lifecycle state machine                    *)
(*   - scheduler.rs : the bounded task scheduler (tokio semaphore + flag)  *)
(*   - registry.rs  : the registration controller driven by the lifecycle  *)
(*   - lib.rs       : the kernel that owns the three of them               *)
(*   - call.rs      : the call pipeline of KernelMessageHandler            *)
(* and of the libraries the pipeline is built on (agent-policy,             *)
(* agent-memory).                                                          *)
(* Each component has its own specification over the shared variables; a   *)
(* specification leaves the variables of the other components unchanged.   *)
(***************************************************************************)
EXTENDS Naturals, Integers, Sequences, FiniteSets, TLC

VARIABLES
    \* ---- Lifecycle (lifecycle.rs) ----
    agent_id,     \* Lifecycle.agent_id
    state,        \* Lifecycle.state
    lcFrom,       \* history: state before the last transition() call
    lcEvent,      \* history: event of the last transition() call
    lcRet,        \* history: value returned by the last transition() call
    \* ---- TaskScheduler (scheduler.rs) ----
    max_concurrency, \* SchedulerConfig.max_concurrency (N)
    closed,       \* TaskScheduler.closed (AtomicBool)
    semClosed,    \* the semaphore's closed bit (Semaphore::close)
    permits,      \* permits the semaphore has available
    waiters,      \* the semaphore's FIFO wait queue (task ids, head first)
    pc,           \* per spawned tokio task: where it is in the async block
    kind,         \* per task: what future it wraps
    nTasks,       \* number of tokio tasks created so far
    inSpawn,      \* spawn() calls past the is_closed check, before tokio::spawn
    inClose,      \* close() calls past the flag store, before semaphore.close()
    closeReturned,\* history: some close() call has returned
    spawnRet,     \* history: result of the last spawn() call that returned
    waitLog,      \* history: tasks in the order they joined the wait queue
    grantLog,     \* history: waiting tasks in the order a release granted them
    abortReq,     \* per task: JoinHandle::abort() was called on it
    \* ---- RegistrationController (registry.rs) ----
    config,       \* RegistrationController.config
    shutdown,     \* RegistrationController.shutdown (AtomicBool)
    worker,       \* RegistrationController.worker (0 = None, else task id)
    wpc,          \* the registration worker's position in its loops, per task
    retry_delay,  \* run_registration_loop's retry_delay, per task
    failures,     \* run_heartbeat_loop's failures, per task
    lastArm,      \* history: match arm the last on_state_change call took
    hookRet,      \* history: result of the last on_state_change call
    \* ---- the directory (AgentRegistry), as seen from its side ----
    lastReg,      \* per worker task: result of its last register() call
    regFailRun,   \* per worker task: register() errors in a row, up to now
    hbFailRun,    \* per worker task: heartbeat() errors in a row, since the
                  \* last successful register() or heartbeat()
    entry,        \* the directory holds an entry for the agent
    \* ---- one handle_call (call.rs) and its collaborators ----
    payload,      \* ctx.message().payload(): what the Call message carries
    memory,       \* KernelMessageHandler.memory.is_some()
    policy,       \* CallExecutor.policy: "None" or the kind of engine
    cpc,          \* where handle_call is
    ti,           \* execute: index of the invocation the tool loop is at
    oi,           \* 0 in record_inbound, else index of the outbound record
    messages,     \* execute: `messages`
    tool_results, \* execute: `tool_results`
    volatile,     \* MemoryBus.volatile: records pushed to the ring
    journal,      \* MemoryBus.journal: records appended
    sink,         \* outcomes handed to the CallOutcomeSink
    adapterIn,    \* messages of the request each adapter.infer() call got
    callRet,      \* what handle_call returned (None while it runs)
    trace,        \* history: policy checks, tool and adapter calls, writes
    policy_observer, \* CallExecutor.policy_observer: "None" or its kind
    notified,     \* on_decision calls the installed observer received
    events,       \* messages handed to the AuditEmitter
    \* ---- the adapter's chunk stream as execute reads it (call.rs) ----
    stream,       \* the items the stream yields: chunks, or an error
    spos,         \* number of items stream.next() has yielded so far
    response,     \* execute: `response`
    streamRet,    \* how the reading ended (None while it goes on)
    \* ---- RuleBasedEngine (agent-policy/engine.rs) ----
    rules,        \* RuleBasedEngine.rules
    default_decision, \* RuleBasedEngine.default_decision
    ruleLog,      \* history: the rules in the order add_rule was called
    evaluated,    \* history: evaluate() was called
    evalReq,      \* the request evaluate() is given
    evalRet,      \* the decision it returned
    rules_lock,   \* the RwLock around rules: "free", "read" or "write"
    epc,          \* a concurrent evaluate() call: "idle", "lock" (awaiting
                  \* the read lock), "iter" (in the loop), "done"
    ei,           \* the rule its loop is at
    addCall,      \* a concurrent add_rule() call: where it is, its rule
    evalOn,       \* history: the values of rules between the call of
                  \* evaluate() and its return
    \* ---- VolatileMemory (agent-memory/volatile.rs) ----
    capacity,     \* VolatileConfig.capacity
    max_total_bytes, \* VolatileConfig.max_total_bytes (0 = None)
    entries,      \* VolatileInner.entries: payload length of each record
    total_bytes,  \* VolatileInner.total_bytes
    pushes,       \* history: payload lengths pushed, oldest first
    recentRet,    \* history: the recent() call just made and its result
    \* ---- FileJournal (agent-memory/journal.rs) ----
    file_bytes,   \* the bytes of the file at FileJournal.path
    file_lock,    \* FileJournal.file (Mutex): the call holding it, 0 = free
    apc,          \* per append() call in flight: where it is
    arec,         \* per append() call: the record it was given
    nAppends,     \* history: append() calls made so far
    appended,     \* history: records whose append() returned Ok, in order
    failedAppend, \* history: an append() returned Err or was cut short
    restarts,     \* history: times the process was restarted
    tailLimit,    \* history: limit of the tail() call just made
    tailRet,      \* history: what it returned (NoTail once the journal
                  \* has moved on)
    discarded,    \* history: records appended before a clear() returned Ok
    clears,       \* history: clear() calls that returned Ok
    clearFailed,  \* history: a clear() call returned Err
    \* ---- MemoryBus (agent-memory/bus.rs) ----
    vector_store, \* MemoryBus.vector_store is Some
    bus_volatile, \* the records held by MemoryBus.volatile, oldest first
    bus_journal,  \* the records appended to MemoryBus.journal
    bus_index,    \* the ids of the points upserted into the vector store
    bpc,          \* where the record() call is: "idle", "push", "append",
                  \* "upsert"
    brec,         \* the record it was given
    bret,         \* what the last record() call returned
    writes,       \* history: the stores the call wrote to, in order
    nRecords,     \* history: record() calls made so far
    rcalls,       \* per concurrent record() call: where it is ("push",
                  \* "append", "upsert", "ok", "err") and its embedding
    \* ---- LocalVectorStore (agent-memory/vector_store_api.rs) ----
    points,       \* LocalVectorStore.points, in the order values() yields
    query,        \* the VectorQuery
    matches,      \* what query() returned (None before the call)
    \* ---- ToolRegistry (agent-tools/registry.rs) ----
    tool_registry, \* ToolRegistry.inner: the handle under each name
    toolCalls,    \* history: register_tool()/invoke() calls made so far
    toolRet,      \* history: the last call and what it returned
    toolRuns,     \* history: the executors that were run, in order
    \* ---- messages handed to the kernel (agent-kernel/lib.rs) ----
    accepted,     \* history: the messages accepted by schedule_message,
                  \* each with its task and whether the lifecycle was
                  \* Terminated at the call
    dispatched    \* history: the dispatch_message calls, each with how
                  \* the message came in and whether the lifecycle was
                  \* Terminated when it did

lcVars    == <<agent_id, state, lcFrom, lcEvent, lcRet>>
schedVars == <<max_concurrency, closed, semClosed, permits, waiters, pc, kind, nTasks, inSpawn,
               inClose, closeReturned, spawnRet, waitLog, grantLog,
               abortReq>>
dirVars   == <<lastReg, regFailRun, hbFailRun, entry>>
regVars   == <<config, shutdown, worker, wpc, retry_delay, failures, lastArm,
               hookRet, dirVars>>
obsVars   == <<policy_observer, notified, events>>
callVars  == <<payload, memory, policy, cpc, ti, oi, messages, tool_results,
               volatile, journal, sink, adapterIn, callRet, trace, obsVars>>
streamVars == <<stream, spos, response, streamRet>>
engineVars == <<rules, default_decision, ruleLog, evaluated, evalReq,
                evalRet, rules_lock, epc, ei, addCall, evalOn>>
ringVars  == <<capacity, max_total_bytes, entries, total_bytes, pushes,
               recentRet>>
clearVars == <<discarded, clears, clearFailed>>
journalVars == <<file_bytes, file_lock, apc, arec, nAppends, appended,
                 failedAppend, restarts, tailLimit, tailRet, clearVars>>
busVars   == <<vector_store, bus_volatile, bus_journal, bus_index, bpc, brec,
               bret, writes, nRecords, rcalls>>
storeVars == <<points, query, matches>>
toolVars  == <<tool_registry, toolCalls, toolRet, toolRuns>>
msgVars   == <<accepted, dispatched>>
extVars   == <<toolVars, msgVars>>
coreVars  == <<streamVars, engineVars, ringVars, journalVars, busVars,
               storeVars>>
libVars   == <<coreVars, extVars>>
vars      == <<lcVars, schedVars, regVars, callVars, libVars>>

(***************************************************************************)
(* Bounds of the model.                                                    *)
(***************************************************************************)
NumAgentIds == 3
MaxPermits == 2
MaxTasks == 4
MaxCallers == 1
MaxCtlTasks == 2
MaxRegFails == 3
MaxTools == 2
MaxMsgs == 1

None == "None"

(***************************************************************************)
(* lifecycle.rs                                                            *)
(***************************************************************************)
AgentIds == 1..NumAgentIds

AgentState == {"Init", "Ready", "Active", "Suspended", "Retiring", "Terminated"}

LifecycleEvent == {"Boot", "Activate", "Suspend", "Resume", "Retire",
                   "Terminate", "Abort"}

\* A variant of the match that lost the `(_, Abort)` wildcard arm.
NextStateNoWildcard(s, e) ==
    CASE s = "Init" /\ e = "Boot" -> "Ready"
      [] (s = "Ready" /\ e = "Activate") \/ (s = "Suspended" /\ e = "Resume")
            -> "Active"
      [] s \in {"Ready", "Active", "Suspended"} /\ e = "Retire" -> "Retiring"
      [] s = "Active" /\ e = "Suspend" -> "Suspended"
      [] s \in {"Retiring", "Terminated"} /\ e \in {"Terminate", "Abort"}
            -> "Terminated"
      [] OTHER -> None

\* A variant of the match whose Resume arm goes back to Ready.
NextStateResumeReady(s, e) ==
    CASE s = "Init" /\ e = "Boot" -> "Ready"
      [] s = "Ready" /\ e = "Activate" -> "Active"
      [] s = "Suspended" /\ e = "Resume" -> "Ready"
      [] s \in {"Ready", "Active", "Suspended"} /\ e = "Retire" -> "Retiring"
      [] s = "Active" /\ e = "Suspend" -> "Suspended"
      [] (s \in {"Retiring", "Terminated"} /\ e = "Terminate") \/ e = "Abort"
            -> "Terminated"
      [] OTHER -> None

\* The `match (self.state, event)` of Lifecycle::transition: Some(next) or None.
\* The arms are tried in source order (the first matching arm wins).
NextState(s, e) ==
    IF s = "Init" /\ e = "Boot" THEN "Ready"
    ELSE IF (s = "Ready" /\ e = "Activate") \/ (s = "Suspended" /\ e = "Resume")
         THEN "Active"
    ELSE IF s \in {"Ready", "Active", "Suspended"} /\ e = "Retire" THEN "Retiring"
    ELSE IF s = "Active" /\ e = "Suspend" THEN "Suspended"
    ELSE IF (s \in {"Retiring", "Terminated"} /\ e = "Terminate") \/ e = "Abort"
         THEN "Terminated"
    ELSE None

\* An error value that reports the event but the wrong prior state.
InvalidTransitionWrongFrom(id, from, event) ==
    [ok |-> FALSE, agent_id |-> id, from |-> "Init", event |-> event]

\* Err(LifecycleError::InvalidTransition { agent_id, from, event })
InvalidTransition(id, from, event) ==
    [ok |-> FALSE, agent_id |-> id, from |-> from, event |-> event]

\* No transition() call has returned yet.
NoReturn == [returned |-> FALSE]

\* No call on the tool registry was made yet.
NoToolCall == [op |-> "none"]

\* No add_rule() call is under way.
NoAdd == [at |-> "none"]

\* No recent() call was made since the last push.
NoRecent == [called |-> FALSE]

\* Ok(state)
LcOk(s) == [ok |-> TRUE, state |-> s]

\* The state Lifecycle::transition leaves in self.state.
LcStateAfter(s, e) ==
    LET next == NextState(s, e) IN
    IF next = None THEN s
    ELSE IF next # s THEN next ELSE s

\* The value Lifecycle::transition returns.
LcReturn(id, s, e) ==
    IF NextState(s, e) = None THEN InvalidTransition(id, s, e)
    ELSE LcOk(LcStateAfter(s, e))

\* Lifecycle::transition(event): the effect on the lifecycle's own fields.
LcApply(e) ==
    /\ state' = LcStateAfter(state, e)
    /\ lcRet' = LcReturn(agent_id, state, e)
    /\ lcFrom' = state
    /\ lcEvent' = e
    /\ UNCHANGED <<agent_id, callVars, libVars>>

(***************************************************************************)
(* scheduler.rs                                                            *)
(*                                                                         *)
(* A task created by tokio::spawn runs the async block of spawn():         *)
(*   "spawned"   created, not polled yet                                   *)
(*   "waiting"   suspended in acquire_owned().await, in the wait queue (or *)
(*               woken out of it by Semaphore::close)                      *)
(*   "granted"   a release handed it a permit and woke it; not resumed yet *)
(*   "running"   holds a permit, inside `future.await` (the user code)     *)
(*   "done"      user code returned, permit dropped                        *)
(*   "userPanic" user code panicked, permit dropped by unwinding           *)
(*   "acqPanic"  acquire_owned() returned Err: the expect() panicked       *)
(*   "aborted"   cancelled through JoinHandle::abort                       *)
(* The semaphore is tokio's fair semaphore: a released permit goes to the  *)
(* head of the wait queue if there is one, else back to the counter.       *)
(***************************************************************************)
Tasks == 1..MaxTasks

Permits == 1..MaxPermits

Live == {"spawned", "waiting", "granted", "running"}

Final == {"done", "userPanic", "acqPanic", "aborted"}

Running == {t \in Tasks : pc[t] = "running"}

Granted == {t \in Tasks : pc[t] = "granted"}

RemoveFrom(w, t) == SelectSeq(w, LAMBDA x : x # t)

InSeq(w, t) == \E i \in 1..Len(w) : w[i] = t

IndexOf(w, t) == CHOOSE i \in 1..Len(w) : w[i] = t

\* A check that never sees the flag.
is_closed_never == FALSE

\* TaskScheduler::is_closed
is_closed == closed

\* An acquire that fails as soon as the scheduler's own flag is set.
AcquireFailsOnFlag == closed

\* acquire_owned() returns Err(AcquireError) iff the semaphore is closed.
AcquireFails == semClosed

\* An acquire that does not look at the number of permits.
CanAcquireAlways(p) == TRUE

\* acquire_owned() on its first poll takes a permit iff one is available.
CanAcquire(p) == p > 0

\* A queue that serves the most recent waiter first.
NextWaiterLifo(w) == w[Len(w)]

\* The waiter a released permit is handed to: the oldest one.
NextWaiter(w) == Head(w)

\* A release that only bumps the counter and wakes nobody.
ReleasePermitNoHandoff(p, w) == [permits |-> p + 1, waiters |-> w, grantee |-> 0]

\* drop(permit): the permit goes to the oldest waiter, which is woken, or
\* back to the counter when nobody waits.
ReleasePermit(p, w) ==
    IF w # <<>>
    THEN [permits |-> p, waiters |-> RemoveFrom(w, NextWaiter(w)),
          grantee |-> NextWaiter(w)]
    ELSE [permits |-> p + 1, waiters |-> w, grantee |-> 0]

\* A permit that is given back only on the normal return path.
ReleasedOnReturnOnly(outcome) == outcome = "done"

\* The permit is a local of the async block: it is dropped when the user
\* code returns (drop(permit)) and when it panics (unwinding).
ReleasedOn(outcome) == TRUE

\* The task leaves the state in which it held a permit: pc and semaphore.
LeaveWithPermit(t, to, released) ==
    LET r == ReleasePermit(permits, waiters) IN
    IF released
    THEN /\ permits' = r.permits
         /\ waiters' = r.waiters
         /\ pc' = IF r.grantee = 0 THEN [pc EXCEPT ![t] = to]
                  ELSE [pc EXCEPT ![t] = to, ![r.grantee] = "granted"]
         /\ grantLog' = IF r.grantee = 0 THEN grantLog
                        ELSE Append(grantLog, r.grantee)
    ELSE /\ pc' = [pc EXCEPT ![t] = to]
         /\ UNCHANGED <<permits, waiters, grantLog>>

\* tokio::spawn(async move { ... }) inside spawn(): a new task of kind k.
NewTask(k) ==
    /\ nTasks < MaxTasks
    /\ nTasks' = nTasks + 1
    /\ kind' = [kind EXCEPT ![nTasks + 1] = k]

\* spawn(), first half: `if self.is_closed() { return Err(Closed) }`.
SpawnCheck ==
    /\ IF is_closed
       THEN /\ spawnRet' = "Closed"
            /\ UNCHANGED inSpawn
       ELSE /\ nTasks + inSpawn < MaxTasks
            /\ inSpawn < MaxCallers
            /\ inSpawn' = inSpawn + 1
            /\ UNCHANGED spawnRet
    /\ UNCHANGED <<max_concurrency, closed, semClosed, permits, waiters, pc,
                   kind, nTasks, inClose, closeReturned, waitLog, grantLog, abortReq>>
    /\ UNCHANGED <<lcVars, regVars, callVars, libVars>>

\* spawn(), second half: tokio::spawn(...) and `Ok(handle)`.
SpawnTask ==
    /\ inSpawn > 0
    /\ NewTask("user")
    /\ pc' = [pc EXCEPT ![nTasks + 1] = "spawned"]
    /\ inSpawn' = inSpawn - 1
    /\ spawnRet' = "Ok"
    /\ UNCHANGED <<max_concurrency, closed, semClosed, permits, waiters,
                   inClose, closeReturned, waitLog, grantLog,
                   abortReq>>
    /\ UNCHANGED <<lcVars, regVars, callVars, libVars>>

\* close(), first half: self.closed.store(true).
CloseStore ==
    /\ inClose < MaxCallers
    /\ closed' = TRUE
    /\ inClose' = inClose + 1
    /\ UNCHANGED <<max_concurrency, semClosed, permits, waiters, pc, kind,
                   nTasks, inSpawn, closeReturned, spawnRet, waitLog,
                   grantLog, abortReq>>
    /\ UNCHANGED <<lcVars, regVars, callVars, libVars>>

\* close(), second half: self.semaphore.close() fails every pending acquire
\* (the queue is emptied and its tasks are woken) and every later one.
CloseSem ==
    /\ inClose > 0
    /\ semClosed' = TRUE
    /\ waiters' = <<>>
    /\ inClose' = inClose - 1
    /\ closeReturned' = TRUE
    /\ UNCHANGED <<max_concurrency, closed, permits, pc, kind, nTasks,
                   inSpawn, spawnRet, waitLog, grantLog, abortReq>>
    /\ UNCHANGED <<lcVars, regVars, callVars, libVars>>

\* First poll of the task: semaphore.acquire_owned().await.expect(..), and
\* when the permit is there, on into the user code.
PollFirst(t) ==
    /\ pc[t] = "spawned"
    /\ IF AcquireFails
       THEN /\ pc' = [pc EXCEPT ![t] = "acqPanic"]
            /\ UNCHANGED <<permits, waiters, waitLog>>
       ELSE IF CanAcquire(permits)
       THEN /\ permits' = IF permits > 0 THEN permits - 1 ELSE 0
            /\ pc' = [pc EXCEPT ![t] = "running"]
            /\ UNCHANGED <<waiters, waitLog>>
       ELSE /\ waiters' = Append(waiters, t)
            /\ waitLog' = Append(waitLog, t)
            /\ pc' = [pc EXCEPT ![t] = "waiting"]
            /\ UNCHANGED permits
    /\ UNCHANGED <<max_concurrency, closed, semClosed, kind, nTasks, inSpawn,
                   inClose, closeReturned, spawnRet, grantLog, abortReq>>
    /\ UNCHANGED <<lcVars, regVars, callVars, libVars>>

\* A waiting task woken by Semaphore::close resumes: acquire_owned() is
\* Err(AcquireError) and expect("scheduler closed while awaiting permit")
\* panics.
PollClosed(t) ==
    /\ pc[t] = "waiting"
    /\ ~InSeq(waiters, t)
    /\ AcquireFails
    /\ pc' = [pc EXCEPT ![t] = "acqPanic"]
    /\ UNCHANGED <<max_concurrency, closed, semClosed, permits, waiters, kind,
                   nTasks, inSpawn, inClose, closeReturned, spawnRet, waitLog,
                   grantLog, abortReq>>
    /\ UNCHANGED <<lcVars, regVars, callVars, libVars>>

\* A task that was handed a permit resumes: acquire_owned() is Ok(permit)
\* and the task enters the user code.
PollGranted(t) ==
    /\ pc[t] = "granted"
    /\ pc' = [pc EXCEPT ![t] = "running"]
    /\ UNCHANGED <<max_concurrency, closed, semClosed, permits, waiters, kind,
                   nTasks, inSpawn, inClose, closeReturned, spawnRet, waitLog,
                   grantLog, abortReq>>
    /\ UNCHANGED <<lcVars, regVars, callVars, libVars>>

\* A task that was handed a permit resumes after the semaphore was closed
\* in between: the acquire may also report the closure, in which case the
\* permit goes back and the expect() panics.  Either outcome is allowed.
PollGrantedClosed(t) ==
    /\ pc[t] = "granted"
    /\ AcquireFails
    /\ LeaveWithPermit(t, "acqPanic", TRUE)
    /\ UNCHANGED <<max_concurrency, closed, semClosed, kind, nTasks, inSpawn,
                   inClose, closeReturned, spawnRet, waitLog, abortReq>>
    /\ UNCHANGED <<lcVars, regVars, callVars, libVars>>

\* The user code of a submitted task ends: it returns or it panics.
Finish(t, outcome) ==
    /\ pc[t] = "running"
    /\ kind[t] = "user"
    /\ LeaveWithPermit(t, outcome, ReleasedOn(outcome))
    /\ UNCHANGED <<max_concurrency, closed, semClosed, kind, nTasks, inSpawn,
                   inClose, closeReturned, spawnRet, waitLog,
                   abortReq>>
    /\ UNCHANGED <<lcVars, regVars, callVars, libVars>>

(***************************************************************************)
(* Specification of the lifecycle alone: any sequence of events.           *)
(***************************************************************************)
Transition(e) == LcApply(e) /\ UNCHANGED <<schedVars, regVars>>

NextLifecycle == \E e \in LifecycleEvent : Transition(e)

InitLifecycle ==
    /\ agent_id \in AgentIds
    /\ state = "Init"
    /\ lcFrom = None
    /\ lcEvent = None
    /\ lcRet = NoReturn
    /\ max_concurrency = 1
    /\ closed = FALSE
    /\ semClosed = FALSE
    /\ permits = max_concurrency
    /\ waiters = <<>>
    /\ pc = [t \in Tasks |-> "none"]
    /\ kind = [t \in Tasks |-> "none"]
    /\ nTasks = 0
    /\ inSpawn = 0
    /\ inClose = 0
    /\ closeReturned = FALSE
    /\ spawnRet = None
    /\ waitLog = <<>>
    /\ grantLog = <<>>
    /\ abortReq = [t \in Tasks |-> FALSE]
    /\ config = None
    /\ shutdown = FALSE
    /\ worker = 0
    /\ wpc = [t \in Tasks |-> None]
    /\ retry_delay = [t \in Tasks |-> 0]
    /\ failures = [t \in Tasks |-> 0]
    /\ lastArm = None
    /\ hookRet = None
    /\ lastReg = [t \in Tasks |-> None]
    /\ regFailRun = [t \in Tasks |-> 0]
    /\ hbFailRun = [t \in Tasks |-> 0]
    /\ payload = None
    /\ memory = FALSE
    /\ policy = None
    /\ cpc = None
    /\ ti = 0
    /\ oi = 0
    /\ messages = <<>>
    /\ tool_results = <<>>
    /\ volatile = <<>>
    /\ journal = <<>>
    /\ sink = <<>>
    /\ adapterIn = <<>>
    /\ callRet = None
    /\ trace = <<>>
    /\ policy_observer = None
    /\ notified = <<>>
    /\ events = <<>>
    /\ stream = <<>>
    /\ spos = 0
    /\ response = <<>>
    /\ streamRet = None
    /\ rules = <<>>
    /\ default_decision = "Allow"
    /\ ruleLog = <<>>
    /\ evaluated = FALSE
    /\ evalReq = None
    /\ evalRet = None
    /\ capacity = 1
    /\ max_total_bytes = 0
    /\ entries = <<>>
    /\ total_bytes = 0
    /\ pushes = <<>>
    /\ file_bytes = <<>>
    /\ file_lock = 0
    /\ apc = <<>>
    /\ arec = <<>>
    /\ nAppends = 0
    /\ appended = <<>>
    /\ failedAppend = FALSE
    /\ restarts = 0
    /\ tailLimit = 0
    /\ tailRet = None
    /\ vector_store = FALSE
    /\ bus_volatile = <<>>
    /\ bus_journal = <<>>
    /\ bus_index = {}
    /\ bpc = "idle"
    /\ brec = None
    /\ bret = None
    /\ writes = <<>>
    /\ nRecords = 0
    /\ points = <<>>
    /\ query = None
    /\ matches = None
    /\ recentRet = NoRecent
    /\ discarded = {}
    /\ clears = 0
    /\ clearFailed = FALSE
    /\ tool_registry = {}
    /\ toolCalls = 0
    /\ toolRet = NoToolCall
    /\ toolRuns = <<>>
    /\ accepted = {}
    /\ dispatched = {}
    /\ entry = FALSE
    /\ rcalls = <<>>
    /\ rules_lock = "free"
    /\ epc = "idle"
    /\ ei = 1
    /\ addCall = NoAdd
    /\ evalOn = {}

SpecLifecycle == InitLifecycle /\ [][NextLifecycle]_vars


(***************************************************************************)
(* Claims about the lifecycle (checked under SpecLifecycle).               *)
(***************************************************************************)
\* The transition table of the lifecycle as documented: <<from, event, to>>.
TransitionTable ==
    {<<"Init", "Boot", "Ready">>,
     <<"Ready", "Activate", "Active">>,
     <<"Active", "Suspend", "Suspended">>,
     <<"Suspended", "Resume", "Active">>,
     <<"Ready", "Retire", "Retiring">>,
     <<"Active", "Retire", "Retiring">>,
     <<"Suspended", "Retire", "Retiring">>,
     <<"Retiring", "Terminate", "Terminated">>,
     <<"Terminated", "Terminate", "Terminated">>}
    \cup {<<s, "Abort", "Terminated">> : s \in AgentState}

TableAccepts(s, e) == \E r \in TransitionTable : r[1] = s /\ r[2] = e

TableNext(s, e) == (CHOOSE r \in TransitionTable : r[1] = s /\ r[2] = e)[3]

\* C1: after any sequence of events, the last transition() call, if the
\* table accepts its (state, event) pair, moved the state to exactly the
\* table's next state and returned it; a pair outside the table was not
\* accepted.
C1_TransitionFollowsTable ==
    lcEvent # None =>
        IF TableAccepts(lcFrom, lcEvent)
        THEN /\ state = TableNext(lcFrom, lcEvent)
             /\ lcRet = [ok |-> TRUE, state |-> TableNext(lcFrom, lcEvent)]
        ELSE ~lcRet.ok

C1_Witness ==
    /\ lcFrom = "Suspended" /\ lcEvent = "Resume"
    /\ state = "Active" /\ lcRet.ok

\* C2: a (state, event) pair the table rejects returns InvalidTransition
\* with the agent id, the prior state and the event, and leaves the state
\* as it was.
C2_RejectedLeavesState ==
    (lcEvent # None /\ ~TableAccepts(lcFrom, lcEvent)) =>
        /\ lcRet = [ok |-> FALSE, agent_id |-> agent_id, from |-> lcFrom,
                    event |-> lcEvent]
        /\ state = lcFrom

C2_Witness ==
    /\ lcFrom = "Suspended" /\ lcEvent = "Activate"
    /\ ~lcRet.ok /\ state = "Suspended"

\* C3: transition(Abort) succeeds from every state and yields Terminated;
\* an Abort applied in Terminated succeeds again and leaves Terminated.
C3_AbortAbsorbing ==
    lcEvent = "Abort" =>
        /\ lcRet = [ok |-> TRUE, state |-> "Terminated"]
        /\ state = "Terminated"
        /\ (lcFrom = "Terminated" => state = lcFrom)

C3_Witness ==
    /\ lcFrom = "Terminated" /\ lcEvent = "Abort"
    /\ lcRet.ok /\ state = "Terminated"

(***************************************************************************)
(* Specification of the scheduler alone: clients submit tasks and close    *)
(* the scheduler from any thread, the runtime polls tasks in any order.    *)
(***************************************************************************)
NextSched ==
    \/ SpawnCheck
    \/ SpawnTask
    \/ CloseStore
    \/ CloseSem
    \/ \E t \in Tasks : PollFirst(t)
    \/ \E t \in Tasks : PollClosed(t)
    \/ \E t \in Tasks : PollGranted(t)
    \/ \E t \in Tasks : PollGrantedClosed(t)
    \/ \E t \in Tasks : \E o \in {"done", "userPanic"} : Finish(t, o)

\* TaskScheduler::new(config) with any N >= 1.
InitSched ==
    /\ agent_id = 1
    /\ state = "Init"
    /\ lcFrom = None
    /\ lcEvent = None
    /\ lcRet = NoReturn
    /\ max_concurrency \in Permits
    /\ closed = FALSE
    /\ semClosed = FALSE
    /\ permits = max_concurrency
    /\ waiters = <<>>
    /\ pc = [t \in Tasks |-> "none"]
    /\ kind = [t \in Tasks |-> "none"]
    /\ nTasks = 0
    /\ inSpawn = 0
    /\ inClose = 0
    /\ closeReturned = FALSE
    /\ spawnRet = None
    /\ waitLog = <<>>
    /\ grantLog = <<>>
    /\ abortReq = [t \in Tasks |-> FALSE]
    /\ config = None
    /\ shutdown = FALSE
    /\ worker = 0
    /\ wpc = [t \in Tasks |-> None]
    /\ retry_delay = [t \in Tasks |-> 0]
    /\ failures = [t \in Tasks |-> 0]
    /\ lastArm = None
    /\ hookRet = None
    /\ lastReg = [t \in Tasks |-> None]
    /\ regFailRun = [t \in Tasks |-> 0]
    /\ hbFailRun = [t \in Tasks |-> 0]
    /\ payload = None
    /\ memory = FALSE
    /\ policy = None
    /\ cpc = None
    /\ ti = 0
    /\ oi = 0
    /\ messages = <<>>
    /\ tool_results = <<>>
    /\ volatile = <<>>
    /\ journal = <<>>
    /\ sink = <<>>
    /\ adapterIn = <<>>
    /\ callRet = None
    /\ trace = <<>>
    /\ policy_observer = None
    /\ notified = <<>>
    /\ events = <<>>
    /\ stream = <<>>
    /\ spos = 0
    /\ response = <<>>
    /\ streamRet = None
    /\ rules = <<>>
    /\ default_decision = "Allow"
    /\ ruleLog = <<>>
    /\ evaluated = FALSE
    /\ evalReq = None
    /\ evalRet = None
    /\ capacity = 1
    /\ max_total_bytes = 0
    /\ entries = <<>>
    /\ total_bytes = 0
    /\ pushes = <<>>
    /\ file_bytes = <<>>
    /\ file_lock = 0
    /\ apc = <<>>
    /\ arec = <<>>
    /\ nAppends = 0
    /\ appended = <<>>
    /\ failedAppend = FALSE
    /\ restarts = 0
    /\ tailLimit = 0
    /\ tailRet = None
    /\ vector_store = FALSE
    /\ bus_volatile = <<>>
    /\ bus_journal = <<>>
    /\ bus_index = {}
    /\ bpc = "idle"
    /\ brec = None
    /\ bret = None
    /\ writes = <<>>
    /\ nRecords = 0
    /\ points = <<>>
    /\ query = None
    /\ matches = None
    /\ recentRet = NoRecent
    /\ discarded = {}
    /\ clears = 0
    /\ clearFailed = FALSE
    /\ tool_registry = {}
    /\ toolCalls = 0
    /\ toolRet = NoToolCall
    /\ toolRuns = <<>>
    /\ accepted = {}
    /\ dispatched = {}
    /\ entry = FALSE
    /\ rcalls = <<>>
    /\ rules_lock = "free"
    /\ epc = "idle"
    /\ ei = 1
    /\ addCall = NoAdd
    /\ evalOn = {}

SpecSched == InitSched /\ [][NextSched]_vars

(***************************************************************************)
(* Specification of a scheduler that is never closed, with the fairness of *)
(* the runtime: a runnable task is eventually polled, a spawn() call that  *)
(* passed its check goes on to tokio::spawn, and user code terminates.     *)
(***************************************************************************)
NextSchedOpen ==
    \/ SpawnCheck
    \/ SpawnTask
    \/ \E t \in Tasks : PollFirst(t)
    \/ \E t \in Tasks : PollGranted(t)
    \/ \E t \in Tasks : \E o \in {"done", "userPanic"} : Finish(t, o)

FairSchedOpen ==
    /\ \A t \in Tasks : WF_vars(PollFirst(t))
    /\ \A t \in Tasks : WF_vars(PollGranted(t))
    /\ \A t \in Tasks : WF_vars(\E o \in {"done", "userPanic"} : Finish(t, o))
    /\ WF_vars(SpawnTask)

SpecSchedOpen == InitSched /\ [][NextSchedOpen]_vars /\ FairSchedOpen

(***************************************************************************)
(* Claims about the scheduler (checked under SpecSched / SpecSchedOpen).   *)
(***************************************************************************)
Started(t) == pc[t] \in {"running", "done", "userPanic"}

\* C4: at no point are more than N tasks executing their user code.
C4_AtMostNRunning == Cardinality(Running) <= max_concurrency

C4_Witness ==
    /\ max_concurrency = 2
    /\ Cardinality(Running) = 2
    /\ Len(waiters) = 2

\* C5: once a close() call has returned, a spawn() call returns Closed and
\* starts nothing, and a further close() call changes nothing.
C5_ClosedRejectsSpawn ==
    [][closeReturned =>
          /\ SpawnCheck => /\ spawnRet' = "Closed"
                           /\ inSpawn' = inSpawn
                           /\ nTasks' = nTasks
                           /\ pc' = pc
          /\ (CloseStore \/ CloseSem) =>
                UNCHANGED <<closed, semClosed, permits, waiters, pc, kind,
                            nTasks, inSpawn, spawnRet>>]_vars

C5_Witness ==
    /\ closeReturned
    /\ inClose > 0
    /\ spawnRet = "Closed"

\* C6 as stated: no task that spawn() accepted ever dies in the acquire:
\* close() never makes an accepted task panic instead of running.
C6_AcceptedTasksNeverPanic ==
    \A t \in Tasks : pc[t] # "acqPanic"

\* C6 amended: a task that is executing its user code is untouched by
\* close() and ends only by its user code ending; a task that has not
\* been polled or is still waiting for a permit once the semaphore is
\* closed can only go on to the acquire panic, never into its user code;
\* and the acquire panic happens only after the semaphore was closed, to a
\* task whose user code never began.
C6_CloseSparesOnlyRunning ==
    [][\A t \in Tasks :
          /\ pc[t] = "running" => pc'[t] \in {"running", "done", "userPanic"}
          /\ (semClosed /\ pc[t] \in {"spawned", "waiting"})
                => pc'[t] \in {pc[t], "acqPanic"}
          /\ (pc'[t] = "acqPanic" /\ pc[t] # "acqPanic")
                => semClosed /\ pc[t] \in {"spawned", "waiting", "granted"}
      ]_vars

C6_Witness ==
    /\ closeReturned
    /\ \E t \in Tasks : pc[t] = "done" /\ InSeq(waitLog, t)
    /\ \E t \in Tasks : pc[t] = "running"
    /\ \E t \in Tasks : pc[t] = "acqPanic" /\ InSeq(waitLog, t)

\* C7 as stated: on an open scheduler, available permits plus tasks
\* executing user code is N.
C7_PermitsPlusRunning ==
    ~closed => permits + Cardinality(Running) = max_concurrency

\* C7 amended: on an open scheduler, available permits plus tasks that hold
\* a permit is N, where a task holds a permit while it executes its user
\* code and also from the moment a release hands it the permit until it
\* resumes; so permits plus executing tasks is at most N, and it is N
\* whenever no handed-over task is pending, in particular when all tasks
\* have finished, whether their user code returned or panicked.
C7_PermitsPlusHolders ==
    ~closed =>
        /\ permits + Cardinality(Running) + Cardinality(Granted)
              = max_concurrency
        /\ permits + Cardinality(Running) <= max_concurrency
        /\ (\A t \in Tasks : pc[t] \in Final \cup {"none"})
              => permits = max_concurrency

C7_Witness ==
    /\ ~closed
    /\ \E t \in Tasks : pc[t] = "userPanic"
    /\ \E t \in Tasks : pc[t] = "done"
    /\ Granted # {}

\* C8: on an open scheduler whose N permits are all taken, spawn() still
\* accepts the task, the task waits for a permit instead of failing, and
\* every waiting task eventually executes unless the scheduler is closed.
C8_BackpressureWaits ==
    /\ [][/\ (~closed /\ Cardinality(Running) = max_concurrency /\ SpawnCheck)
               => inSpawn' = inSpawn + 1 /\ spawnRet' # "Closed"
          /\ \A t \in Tasks :
               (~semClosed /\ pc[t] = "spawned" /\ permits = 0
                  /\ pc'[t] # pc[t]) => pc'[t] = "waiting"]_vars
    /\ \A t \in Tasks : (pc[t] = "waiting") ~> (pc[t] = "running")

C8_Witness ==
    /\ ~closed
    /\ \E t \in Tasks : InSeq(waitLog, t) /\ pc[t] = "running"
    /\ Cardinality(Running) = max_concurrency
    /\ waiters # <<>>

\* C9 as stated: if A began waiting before B, then A starts its user code
\* no later than B.
C9_FcfsStart ==
    \A i, j \in 1..Len(waitLog) :
        (i < j /\ Started(waitLog[j])) => Started(waitLog[i])

\* C9 amended: if A began waiting before B, then A is granted a permit no
\* later than B (permits are handed to waiters in queue order); the order
\* in which two tasks that both hold a permit begin their user code is
\* not fixed.
C9_FcfsGrant ==
    \A i, j \in 1..Len(waitLog) :
        (i < j /\ InSeq(grantLog, waitLog[j])) =>
            /\ InSeq(grantLog, waitLog[i])
            /\ IndexOf(grantLog, waitLog[i]) < IndexOf(grantLog, waitLog[j])

C9_Witness ==
    /\ Len(grantLog) = 2
    /\ grantLog = waitLog
    /\ pc[grantLog[1]] = "granted"
    /\ pc[grantLog[2]] = "running"

(***************************************************************************)
(* registry.rs                                                             *)
(*                                                                         *)
(* The controller spawns two kinds of task on the scheduler: the           *)
(* registration worker (run_registration_loop) and the fire-and-forget     *)
(* deregister task.  A worker's user code is at one of these places:       *)
(*   "top"       head of the registration loop (shutdown check)            *)
(*   "register"  registry.register(&manifest).await                        *)
(*   "sleep"     sleep(retry_delay).await after a failed register          *)
(*   "hb_top"    head of the heartbeat loop (shutdown check)               *)
(*   "tick"      interval.tick().await                                     *)
(*   "heartbeat" registry.heartbeat(&manifest).await                       *)
(***************************************************************************)
\* RegistrationConfig values the controller is built with: a valid one, and
\* ones that validate() rejects.
Configs ==
    {[heartbeat_interval |-> 1, initial_retry_delay |-> 1,
      max_retry_delay |-> 3, max_consecutive_failures |-> 2],
     [heartbeat_interval |-> 0, initial_retry_delay |-> 1,
      max_retry_delay |-> 2, max_consecutive_failures |-> 2],
     [heartbeat_interval |-> 1, initial_retry_delay |-> 2,
      max_retry_delay |-> 1, max_consecutive_failures |-> 1]}

\* RegistrationConfig::validate: "Ok" or the InvalidConfig error.
Validate(c) ==
    IF c.heartbeat_interval = 0 THEN "InvalidConfig"
    ELSE IF c.initial_retry_delay = 0 THEN "InvalidConfig"
    ELSE IF c.max_retry_delay = 0 THEN "InvalidConfig"
    ELSE IF c.initial_retry_delay > c.max_retry_delay THEN "InvalidConfig"
    ELSE "Ok"

Min(a, b) == IF a <= b THEN a ELSE b

\* An Err arm that leaves the loops for good.
RegisterErrGivesUp == "gone"

\* The Err arm of register(): `sleep(retry_delay).await`, then loop.
RegisterErrGoes == "sleep"

\* A threshold test that needs one failure more.
ThresholdReachedLate(f, c) == f > c.max_consecutive_failures

\* failures >= config.max_consecutive_failures().get()
ThresholdReached(f, c) == f >= c.max_consecutive_failures

\* A doubling that forgets the maximum.
NextRetryDelayNoCap(d, c) == d * 2

\* retry_delay = (retry_delay * 2).min(config.max_retry_delay())
NextRetryDelay(d, c) == Min(d * 2, c.max_retry_delay)

\* A match that also treats Suspended as a state to leave the directory in.
ReactionSuspendRemoves(s) ==
    IF s \in {"Ready", "Active"} THEN "ensure_worker"
    ELSE IF s \in {"Retiring", "Terminated", "Suspended"} THEN "remove"
    ELSE "nothing"

\* The `match state` of on_state_change: which arm a state selects.
Reaction(s) ==
    IF s \in {"Ready", "Active"} THEN "ensure_worker"
    ELSE IF s \in {"Retiring", "Terminated"} THEN "remove"
    ELSE "nothing"

\* An is_some() that never sees the handle.
WorkerIsSomeNever == FALSE

\* self.worker.is_some()
WorkerIsSome == worker # 0

\* The tasks the controller has spawned so far.
CtlTasks == Cardinality({t \in Tasks : kind[t] \in {"worker", "dereg"}})

\* ensure_worker: nothing when a worker handle exists; else validate the
\* config, spawn the registration loop on the scheduler and keep the handle.
EnsureWorker ==
    IF WorkerIsSome
    THEN /\ hookRet' = "Ok"
         /\ UNCHANGED <<worker, pc, kind, nTasks, wpc, retry_delay, failures>>
    ELSE IF Validate(config) # "Ok"
    THEN /\ hookRet' = Validate(config)
         /\ UNCHANGED <<worker, pc, kind, nTasks, wpc, retry_delay, failures>>
    ELSE IF is_closed
    THEN /\ hookRet' = "Closed"
         /\ UNCHANGED <<worker, pc, kind, nTasks, wpc, retry_delay, failures>>
    ELSE /\ CtlTasks < MaxCtlTasks
         /\ NewTask("worker")
         /\ pc' = [pc EXCEPT ![nTasks + 1] = "spawned"]
         /\ wpc' = [wpc EXCEPT ![nTasks + 1] = "top"]
         /\ retry_delay' = [retry_delay EXCEPT
                               ![nTasks + 1] = config.initial_retry_delay]
         /\ failures' = [failures EXCEPT ![nTasks + 1] = 0]
         /\ worker' = nTasks + 1
         /\ hookRet' = "Ok"

\* A removal that leaves the worker alone.
TakeAndAbortNothing(a, w) == a

\* `if let Some(handle) = self.worker.take() { handle.abort(); }`
TakeAndAbort(a, w) == IF w # 0 THEN [a EXCEPT ![w] = TRUE] ELSE a

\* The Retiring | Terminated arm: set the shutdown flag, spawn the
\* deregister task (an error returns before the worker is touched), then
\* take the worker handle and abort it.
Remove ==
    /\ shutdown' = TRUE
    /\ IF is_closed
       THEN /\ hookRet' = "Closed"
            /\ UNCHANGED <<worker, pc, kind, nTasks, abortReq>>
       ELSE /\ CtlTasks < MaxCtlTasks
            /\ NewTask("dereg")
            /\ pc' = [pc EXCEPT ![nTasks + 1] = "spawned"]
            /\ worker' = 0
            /\ abortReq' = TakeAndAbort(abortReq, worker)
            /\ hookRet' = "Ok"

\* RegistrationController::on_state_change(state, scheduler): its effect on
\* the controller and on the scheduler.
OnStateChangeBody(s) ==
    /\ lastArm' = Reaction(s)
    /\ IF Reaction(s) = "ensure_worker"
       THEN /\ EnsureWorker
            /\ UNCHANGED <<shutdown, abortReq>>
       ELSE IF Reaction(s) = "remove"
       THEN /\ Remove
            /\ UNCHANGED <<wpc, retry_delay, failures>>
       ELSE /\ hookRet' = "Ok"
            /\ UNCHANGED <<shutdown, worker, pc, kind, nTasks, abortReq, wpc,
                           retry_delay, failures>>
    /\ UNCHANGED <<max_concurrency, closed, semClosed, permits, waiters,
                   inSpawn, inClose, closeReturned, spawnRet, waitLog,
                   grantLog>>
    /\ UNCHANGED <<config, dirVars>>

\* on_state_change called on the controller directly.
OnStateChange(s) ==
    OnStateChangeBody(s) /\ UNCHANGED <<lcVars, callVars, libVars>>

\* A step of the worker's user code that keeps the task running.
WorkerGoes(t, to) ==
    /\ wpc' = [wpc EXCEPT ![t] = to]
    /\ UNCHANGED <<schedVars, lcVars, callVars, libVars, config, shutdown,
                   worker, lastArm, hookRet>>

\* The locals of a worker's future (position, retry_delay, failures) are
\* gone once the future has returned or was dropped.
DropLocals(t) ==
    /\ wpc' = [wpc EXCEPT ![t] = None]
    /\ retry_delay' = [retry_delay EXCEPT ![t] = 0]
    /\ failures' = [failures EXCEPT ![t] = 0]
    /\ lastReg' = [lastReg EXCEPT ![t] = None]
    /\ regFailRun' = [regFailRun EXCEPT ![t] = 0]
    /\ hbFailRun' = [hbFailRun EXCEPT ![t] = 0]
    /\ UNCHANGED entry

\* The worker's user code returns: the task is done and its permit dropped.
WorkerExits(t) ==
    /\ LeaveWithPermit(t, "done", TRUE)
    /\ DropLocals(t)
    /\ UNCHANGED <<max_concurrency, closed, semClosed, kind, nTasks, inSpawn,
                   inClose, closeReturned, spawnRet, waitLog, abortReq>>
    /\ UNCHANGED <<lcVars, callVars, libVars, config, shutdown, worker, lastArm,
                   hookRet>>

IsWorkerAt(t, at) == pc[t] = "running" /\ kind[t] = "worker" /\ wpc[t] = at

\* run_registration_loop, loop head: `if shutdown.load() { break }`.
WorkerTop(t) ==
    /\ IsWorkerAt(t, "top")
    /\ IF shutdown
       THEN WorkerExits(t)
       ELSE /\ WorkerGoes(t, "register")
            /\ UNCHANGED <<retry_delay, failures, dirVars>>

\* registry.register(&manifest).await returns Ok or Err.
WorkerRegister(t, ok) ==
    /\ IsWorkerAt(t, "register")
    /\ lastReg' = [lastReg EXCEPT ![t] = IF ok THEN "Ok" ELSE "Err"]
    /\ regFailRun' = [regFailRun EXCEPT
                         ![t] = IF ok THEN 0 ELSE regFailRun[t] + 1]
    /\ hbFailRun' = [hbFailRun EXCEPT ![t] = 0]
    /\ entry' = (entry \/ ok)
    /\ IF ok
       THEN /\ retry_delay' = [retry_delay EXCEPT
                                  ![t] = config.initial_retry_delay]
            /\ failures' = [failures EXCEPT ![t] = 0]
            /\ WorkerGoes(t, "hb_top")
       ELSE /\ regFailRun[t] < MaxRegFails
            /\ WorkerGoes(t, RegisterErrGoes)
            /\ UNCHANGED <<retry_delay, failures>>

\* sleep(retry_delay).await is over: double the delay up to the maximum.
WorkerSleepDone(t) ==
    /\ IsWorkerAt(t, "sleep")
    /\ retry_delay' = [retry_delay EXCEPT
                          ![t] = NextRetryDelay(retry_delay[t], config)]
    /\ WorkerGoes(t, "top")
    /\ UNCHANGED <<failures, dirVars>>

\* run_heartbeat_loop, loop head: `while !shutdown.load()`; leaving the loop
\* returns true, which breaks the registration loop.
WorkerHbTop(t) ==
    /\ IsWorkerAt(t, "hb_top")
    /\ IF shutdown
       THEN WorkerExits(t)
       ELSE /\ WorkerGoes(t, "tick")
            /\ UNCHANGED <<retry_delay, failures, dirVars>>

\* interval.tick().await is over: `if shutdown.load() { break }`.
WorkerTick(t) ==
    /\ IsWorkerAt(t, "tick")
    /\ IF shutdown
       THEN WorkerExits(t)
       ELSE /\ WorkerGoes(t, "heartbeat")
            /\ UNCHANGED <<retry_delay, failures, dirVars>>

\* registry.heartbeat(&manifest).await returns Ok or Err; at the failure
\* threshold the heartbeat loop returns false and registration starts over.
WorkerHeartbeat(t, ok) ==
    /\ IsWorkerAt(t, "heartbeat")
    /\ IF ok
       THEN /\ failures' = [failures EXCEPT ![t] = 0]
            /\ WorkerGoes(t, "hb_top")
       ELSE /\ failures' = [failures EXCEPT ![t] = failures[t] + 1]
            /\ IF ThresholdReached(failures[t] + 1, config)
               THEN WorkerGoes(t, "top")
               ELSE WorkerGoes(t, "hb_top")
    /\ hbFailRun' = [hbFailRun EXCEPT
                        ![t] = IF ok THEN 0 ELSE hbFailRun[t] + 1]
    /\ UNCHANGED <<retry_delay, lastReg, regFailRun, entry>>

\* The deregister task's user code: registry.deregister(&manifest).await
\* returns (Ok or Err is only logged) and the task ends.  The directory
\* answers the call by dropping the agent's entry.
DeregisterDone(t) ==
    /\ pc[t] = "running"
    /\ kind[t] = "dereg"
    /\ LeaveWithPermit(t, "done", TRUE)
    /\ entry' = FALSE
    /\ UNCHANGED <<max_concurrency, closed, semClosed, kind, nTasks, inSpawn,
                   inClose, closeReturned, spawnRet, waitLog, abortReq>>
    /\ UNCHANGED <<lcVars, callVars, libVars, config, shutdown, worker, wpc,
                   retry_delay, failures, lastArm, hookRet, lastReg,
                   regFailRun, hbFailRun>>

\* JoinHandle::abort takes effect: the runtime drops the task's future.  A
\* queued acquire leaves the wait queue, a held permit is released.
Cancel(t) ==
    /\ abortReq[t]
    /\ pc[t] \in Live
    /\ IF pc[t] \in {"running", "granted"}
       THEN LeaveWithPermit(t, "aborted", TRUE)
       ELSE /\ pc' = [pc EXCEPT ![t] = "aborted"]
            /\ waiters' = RemoveFrom(waiters, t)
            /\ UNCHANGED <<permits, grantLog>>
    /\ DropLocals(t)
    /\ UNCHANGED <<max_concurrency, closed, semClosed, kind, nTasks, inSpawn,
                   inClose, closeReturned, spawnRet, waitLog, abortReq>>
    /\ UNCHANGED <<lcVars, callVars, libVars, config, shutdown, worker, lastArm,
                   hookRet>>

(***************************************************************************)
(* Specification of the controller: it is notified of lifecycle states in  *)
(* any order while the runtime runs its tasks and the scheduler may be     *)
(* closed.                                                                 *)
(***************************************************************************)
\* RegistrationController::new(registry, manifest, config) next to a
\* TaskScheduler::new(config).
InitController ==
    /\ agent_id = 1
    /\ state = "Init"
    /\ lcFrom = None
    /\ lcEvent = None
    /\ lcRet = NoReturn
    /\ max_concurrency \in Permits
    /\ closed = FALSE
    /\ semClosed = FALSE
    /\ permits = max_concurrency
    /\ waiters = <<>>
    /\ pc = [t \in Tasks |-> "none"]
    /\ kind = [t \in Tasks |-> "none"]
    /\ nTasks = 0
    /\ inSpawn = 0
    /\ inClose = 0
    /\ closeReturned = FALSE
    /\ spawnRet = None
    /\ waitLog = <<>>
    /\ grantLog = <<>>
    /\ abortReq = [t \in Tasks |-> FALSE]
    /\ config \in Configs
    /\ shutdown = FALSE
    /\ worker = 0
    /\ wpc = [t \in Tasks |-> None]
    /\ retry_delay = [t \in Tasks |-> 0]
    /\ failures = [t \in Tasks |-> 0]
    /\ lastArm = None
    /\ hookRet = None
    /\ lastReg = [t \in Tasks |-> None]
    /\ regFailRun = [t \in Tasks |-> 0]
    /\ hbFailRun = [t \in Tasks |-> 0]
    /\ payload = None
    /\ memory = FALSE
    /\ policy = None
    /\ cpc = None
    /\ ti = 0
    /\ oi = 0
    /\ messages = <<>>
    /\ tool_results = <<>>
    /\ volatile = <<>>
    /\ journal = <<>>
    /\ sink = <<>>
    /\ adapterIn = <<>>
    /\ callRet = None
    /\ trace = <<>>
    /\ policy_observer = None
    /\ notified = <<>>
    /\ events = <<>>
    /\ stream = <<>>
    /\ spos = 0
    /\ response = <<>>
    /\ streamRet = None
    /\ rules = <<>>
    /\ default_decision = "Allow"
    /\ ruleLog = <<>>
    /\ evaluated = FALSE
    /\ evalReq = None
    /\ evalRet = None
    /\ capacity = 1
    /\ max_total_bytes = 0
    /\ entries = <<>>
    /\ total_bytes = 0
    /\ pushes = <<>>
    /\ file_bytes = <<>>
    /\ file_lock = 0
    /\ apc = <<>>
    /\ arec = <<>>
    /\ nAppends = 0
    /\ appended = <<>>
    /\ failedAppend = FALSE
    /\ restarts = 0
    /\ tailLimit = 0
    /\ tailRet = None
    /\ vector_store = FALSE
    /\ bus_volatile = <<>>
    /\ bus_journal = <<>>
    /\ bus_index = {}
    /\ bpc = "idle"
    /\ brec = None
    /\ bret = None
    /\ writes = <<>>
    /\ nRecords = 0
    /\ points = <<>>
    /\ query = None
    /\ matches = None
    /\ recentRet = NoRecent
    /\ discarded = {}
    /\ clears = 0
    /\ clearFailed = FALSE
    /\ tool_registry = {}
    /\ toolCalls = 0
    /\ toolRet = NoToolCall
    /\ toolRuns = <<>>
    /\ accepted = {}
    /\ dispatched = {}
    /\ entry = FALSE
    /\ rcalls = <<>>
    /\ rules_lock = "free"
    /\ epc = "idle"
    /\ ei = 1
    /\ addCall = NoAdd
    /\ evalOn = {}

NextController ==
    \/ \E s \in AgentState : OnStateChange(s)
    \/ CloseStore
    \/ CloseSem
    \/ \E t \in Tasks : PollFirst(t)
    \/ \E t \in Tasks : PollClosed(t)
    \/ \E t \in Tasks : PollGranted(t)
    \/ \E t \in Tasks : PollGrantedClosed(t)
    \/ \E t \in Tasks : WorkerTop(t)
    \/ \E t \in Tasks : \E ok \in BOOLEAN : WorkerRegister(t, ok)
    \/ \E t \in Tasks : WorkerSleepDone(t)
    \/ \E t \in Tasks : WorkerHbTop(t)
    \/ \E t \in Tasks : WorkerTick(t)
    \/ \E t \in Tasks : \E ok \in BOOLEAN : WorkerHeartbeat(t, ok)
    \/ \E t \in Tasks : DeregisterDone(t)
    \/ \E t \in Tasks : Cancel(t)

SpecController == InitController /\ [][NextController]_vars

(***************************************************************************)
(* Claims about the registration controller (checked under SpecController).*)
(***************************************************************************)
\* Everything the controller can touch, apart from the result of the call.
ControllerEffects ==
    <<shutdown, worker, pc, kind, nTasks, abortReq, waiters, permits, wpc,
      retry_delay, failures, closed, semClosed>>

\* C10: on_state_change(Ready or Active), when it succeeds, leaves a worker
\* handle in place (spawning exactly one worker task if there was none, and
\* that worker is alive unless the shutdown flag is set or the scheduler is
\* closed) and neither sets the shutdown flag, aborts a task nor spawns a
\* deregister task; on_state_change(Retiring or Terminated) sets the
\* shutdown flag and, when it succeeds, spawns one deregister task, drops
\* the worker handle and aborts that worker; on_state_change(Init or
\* Suspended) returns Ok and changes nothing: no task is spawned or
\* aborted, the shutdown flag and the worker are as before.
C10_ReactsOnlyToFourStates ==
    [][\A s \in AgentState : OnStateChange(s) =>
          /\ s \in {"Ready", "Active"} =>
                /\ shutdown' = shutdown
                /\ abortReq' = abortReq
                /\ \A t \in Tasks : kind'[t] = "dereg" => kind[t] = "dereg"
                /\ hookRet' = "Ok" =>
                      /\ worker' # 0
                      /\ kind'[worker'] = "worker"
                      /\ worker # 0 => worker' = worker /\ nTasks' = nTasks
                      /\ worker = 0 => worker' = nTasks + 1
                                         /\ nTasks' = nTasks + 1
                      /\ (~shutdown /\ ~closed) => pc'[worker'] \in Live
                /\ hookRet' # "Ok" => UNCHANGED ControllerEffects
          /\ s \in {"Retiring", "Terminated"} =>
                /\ shutdown' = TRUE
                /\ hookRet' = "Ok" =>
                      /\ nTasks' = nTasks + 1
                      /\ kind'[nTasks'] = "dereg"
                      /\ pc'[nTasks'] = "spawned"
                      /\ worker' = 0
                      /\ worker # 0 => abortReq'[worker]
                      /\ \A t \in Tasks : t # worker => abortReq'[t] = abortReq[t]
          /\ s \in {"Init", "Suspended"} =>
                /\ hookRet' = "Ok"
                /\ UNCHANGED ControllerEffects
      ]_vars

C10_Witness ==
    /\ lastArm = "nothing"
    /\ hookRet = "Ok"
    /\ ~shutdown
    /\ worker # 0
    /\ IsWorkerAt(worker, "heartbeat")
    /\ \A t \in Tasks : ~abortReq[t] /\ kind[t] # "dereg"

(***************************************************************************)
(* lib.rs: the kernel owns the lifecycle, the scheduler and the            *)
(* registration controller that set_registry installed.                    *)
(***************************************************************************)
\* AgentKernel::transition(event): the lifecycle moves first; on success the
\* controller is notified of the state the lifecycle returned.
KernelTransition(e) ==
    /\ LcApply(e)
    /\ IF NextState(state, e) # None
       THEN OnStateChangeBody(LcStateAfter(state, e))
       ELSE UNCHANGED <<schedVars, regVars>>

\* What the last AgentKernel::transition call returned: the lifecycle
\* error, the registry hook's error, or Ok(state).
KernelRet ==
    IF lcEvent = None THEN None
    ELSE IF ~lcRet.ok THEN "InvalidTransition"
    ELSE IF hookRet # "Ok" THEN hookRet
    ELSE "Ok"

\* AgentKernel::new(agent_id, handler, scheduler) followed by
\* set_registry(registry, manifest, config).
InitKernel ==
    /\ agent_id = 1
    /\ state = "Init"
    /\ lcFrom = None
    /\ lcEvent = None
    /\ lcRet = NoReturn
    /\ max_concurrency \in Permits
    /\ closed = FALSE
    /\ semClosed = FALSE
    /\ permits = max_concurrency
    /\ waiters = <<>>
    /\ pc = [t \in Tasks |-> "none"]
    /\ kind = [t \in Tasks |-> "none"]
    /\ nTasks = 0
    /\ inSpawn = 0
    /\ inClose = 0
    /\ closeReturned = FALSE
    /\ spawnRet = None
    /\ waitLog = <<>>
    /\ grantLog = <<>>
    /\ abortReq = [t \in Tasks |-> FALSE]
    /\ config \in Configs
    /\ shutdown = FALSE
    /\ worker = 0
    /\ wpc = [t \in Tasks |-> None]
    /\ retry_delay = [t \in Tasks |-> 0]
    /\ failures = [t \in Tasks |-> 0]
    /\ lastArm = None
    /\ hookRet = None
    /\ lastReg = [t \in Tasks |-> None]
    /\ regFailRun = [t \in Tasks |-> 0]
    /\ hbFailRun = [t \in Tasks |-> 0]
    /\ payload = None
    /\ memory = FALSE
    /\ policy = None
    /\ cpc = None
    /\ ti = 0
    /\ oi = 0
    /\ messages = <<>>
    /\ tool_results = <<>>
    /\ volatile = <<>>
    /\ journal = <<>>
    /\ sink = <<>>
    /\ adapterIn = <<>>
    /\ callRet = None
    /\ trace = <<>>
    /\ policy_observer = None
    /\ notified = <<>>
    /\ events = <<>>
    /\ stream = <<>>
    /\ spos = 0
    /\ response = <<>>
    /\ streamRet = None
    /\ rules = <<>>
    /\ default_decision = "Allow"
    /\ ruleLog = <<>>
    /\ evaluated = FALSE
    /\ evalReq = None
    /\ evalRet = None
    /\ capacity = 1
    /\ max_total_bytes = 0
    /\ entries = <<>>
    /\ total_bytes = 0
    /\ pushes = <<>>
    /\ file_bytes = <<>>
    /\ file_lock = 0
    /\ apc = <<>>
    /\ arec = <<>>
    /\ nAppends = 0
    /\ appended = <<>>
    /\ failedAppend = FALSE
    /\ restarts = 0
    /\ tailLimit = 0
    /\ tailRet = None
    /\ vector_store = FALSE
    /\ bus_volatile = <<>>
    /\ bus_journal = <<>>
    /\ bus_index = {}
    /\ bpc = "idle"
    /\ brec = None
    /\ bret = None
    /\ writes = <<>>
    /\ nRecords = 0
    /\ points = <<>>
    /\ query = None
    /\ matches = None
    /\ recentRet = NoRecent
    /\ discarded = {}
    /\ clears = 0
    /\ clearFailed = FALSE
    /\ tool_registry = {}
    /\ toolCalls = 0
    /\ toolRet = NoToolCall
    /\ toolRuns = <<>>
    /\ accepted = {}
    /\ dispatched = {}
    /\ entry = FALSE
    /\ rcalls = <<>>
    /\ rules_lock = "free"
    /\ epc = "idle"
    /\ ei = 1
    /\ addCall = NoAdd
    /\ evalOn = {}

\* A step the runtime takes for task t of the controller: a poll of the
\* async block, or a step of the future it wraps.
TaskStep(t) ==
    \/ PollFirst(t)
    \/ PollGranted(t)
    \/ WorkerTop(t)
    \/ \E ok \in BOOLEAN : WorkerRegister(t, ok)
    \/ WorkerSleepDone(t)
    \/ WorkerHbTop(t)
    \/ WorkerTick(t)
    \/ \E ok \in BOOLEAN : WorkerHeartbeat(t, ok)
    \/ DeregisterDone(t)

NextTasks ==
    \/ \E t \in Tasks : TaskStep(t)
    \/ \E t \in Tasks : Cancel(t)

NextKernel ==
    \/ \E e \in LifecycleEvent : KernelTransition(e)
    \/ CloseStore
    \/ CloseSem
    \/ \E t \in Tasks : PollClosed(t)
    \/ \E t \in Tasks : PollGrantedClosed(t)
    \/ NextTasks

SpecKernel == InitKernel /\ [][NextKernel]_vars

\* The kernel on a scheduler that is never closed, with a runtime that
\* keeps polling every task that can make a step (tokio's scheduler is
\* fair, timers fire, and the directory answers every call; it does not
\* fail more than MaxRegFails register() calls in a row).
NextKernelOpen ==
    \/ \E e \in LifecycleEvent : KernelTransition(e)
    \/ NextTasks

FairKernelOpen ==
    /\ \A t \in Tasks : WF_vars(TaskStep(t))
    /\ \A t \in Tasks : WF_vars(Cancel(t))

SpecKernelOpen == InitKernel /\ [][NextKernelOpen]_vars /\ FairKernelOpen

(***************************************************************************)
(* Claims about the kernel and its controller (checked under SpecKernel).  *)
(***************************************************************************)
\* The registration workers that exist: created and not yet ended.
LiveWorkers == {t \in Tasks : kind[t] = "worker" /\ pc[t] \in Live}

\* C11: whatever lifecycle events the kernel is given, at most one
\* registration worker exists at any time, and a transition that notifies
\* the controller of Ready or Active while it holds a worker spawns no task.
C11_AtMostOneWorker ==
    /\ [](Cardinality(LiveWorkers) <= 1)
    /\ [][\A e \in LifecycleEvent :
            (lcEvent' = e /\ KernelTransition(e) /\ worker # 0
               /\ lcRet'.ok /\ state' \in {"Ready", "Active"})
            => (nTasks' = nTasks /\ worker' = worker /\ pc' = pc)]_vars

C11_Witness ==
    /\ state = "Active"
    /\ lcEvent = "Resume"
    /\ KernelRet = "Ok"
    /\ worker # 0
    /\ LiveWorkers = {worker}
    /\ nTasks = 1

\* 2^n
RECURSIVE Pow2(_)
Pow2(n) == IF n = 0 THEN 1 ELSE 2 * Pow2(n - 1)

\* min(initial_retry * 2^(k-1), max_retry)
BackoffAfter(k) ==
    Min(config.initial_retry_delay * Pow2(k - 1), config.max_retry_delay)

\* The worker tasks that are executing their loops.
RunningWorkers == {t \in Tasks : kind[t] = "worker" /\ pc[t] = "running"}

\* C12: a worker that sleeps after its k-th register() error in a row
\* sleeps min(initial_retry * 2^(k-1), max_retry); its retry_delay always
\* lies between initial_retry and max_retry; and whenever its last
\* register() succeeded, or no register() has failed since, retry_delay is
\* initial_retry, so a re-registration starts its backoff from there.
C12_Backoff ==
    \A t \in RunningWorkers :
        /\ config.initial_retry_delay <= retry_delay[t]
        /\ retry_delay[t] <= config.max_retry_delay
        /\ wpc[t] = "sleep" =>
              /\ regFailRun[t] >= 1
              /\ retry_delay[t] = BackoffAfter(regFailRun[t])
        /\ wpc[t] \in {"top", "register"} =>
              retry_delay[t] = BackoffAfter(regFailRun[t] + 1)
        /\ regFailRun[t] = 0 => retry_delay[t] = config.initial_retry_delay

\* A third register() error in a row: the sleep is the capped delay, since
\* 4 * initial_retry exceeds max_retry.
C12_Witness ==
    \E t \in RunningWorkers :
        /\ wpc[t] = "sleep"
        /\ regFailRun[t] = 3
        /\ retry_delay[t] = config.max_retry_delay
        /\ config.initial_retry_delay * 4 > config.max_retry_delay

\* The positions of the worker in its two states.
Registering == {"top", "register", "sleep"}
Beating == {"hb_top", "tick", "heartbeat"}

\* C13: while a worker is Beating its failure counter equals the number of
\* heartbeat() errors in a row (a success makes it 0), that number is below
\* max_consecutive_failures and its last register() succeeded; a worker
\* that is Registering after a successful register() has had exactly
\* max_consecutive_failures heartbeat errors in a row.  So the worker goes
\* back exactly at the threshold, and sends no heartbeat from then until a
\* register() has succeeded again.
C13_HeartbeatEscalation ==
    \A t \in RunningWorkers :
        /\ wpc[t] \in Beating =>
              /\ lastReg[t] = "Ok"
              /\ failures[t] = hbFailRun[t]
              /\ hbFailRun[t] < config.max_consecutive_failures
        /\ (wpc[t] \in Registering /\ lastReg[t] = "Ok") =>
              hbFailRun[t] = config.max_consecutive_failures

\* The worker is about to register again after the heartbeat threshold.
C13_Witness ==
    \E t \in RunningWorkers :
        /\ wpc[t] = "register"
        /\ lastReg[t] = "Ok"
        /\ hbFailRun[t] = config.max_consecutive_failures
        /\ config.max_consecutive_failures > 1

\* What C14 expects of a Retire: the hook succeeds, the shutdown flag is
\* set, exactly one task is created and it is a deregister task, and the
\* worker's handle is taken and aborted.
RetireRemoves ==
    /\ hookRet' = "Ok"
    /\ shutdown'
    /\ nTasks' = nTasks + 1
    /\ kind' = [kind EXCEPT ![nTasks + 1] = "dereg"]
    /\ pc'[nTasks + 1] = "spawned"
    /\ abortReq'[worker]
    /\ worker' = 0

\* A Retire the lifecycle accepts while the worker is running its loop.
RetireWithRunningWorker ==
    /\ lcEvent' = "Retire"
    /\ KernelTransition("Retire")
    /\ lcRet'.ok
    /\ worker \in RunningWorkers

C15_RegistrationRetried ==
    /\ [][\A t \in Tasks : TaskStep(t) => UNCHANGED <<lcRet, hookRet>>]_vars
    /\ [](\A t \in Tasks : (kind[t] = "worker" /\ pc[t] = "done") => shutdown)
    /\ \A t \in Tasks :
          (kind[t] = "worker") ~> (shutdown \/ IsWorkerAt(t, "heartbeat"))

\* The worker has registered and is sending a heartbeat while the agent is
\* Active, and the last transition returned Ok.
C15_Witness ==
    /\ state = "Active"
    /\ KernelRet = "Ok"
    /\ ~shutdown
    /\ \E t \in Tasks : IsWorkerAt(t, "heartbeat") /\ lastReg[t] = "Ok"

(***************************************************************************)
(* call.rs: one KernelMessageHandler::handle_call, step by step.           *)
(*   "record_inbound"  entering record_inbound                             *)
(*   "mem_policy"      enforce_memory_policy for the record at hand        *)
(*   "mem_write"       memory.record(record)                               *)
(*   "decode"          CallExecutor::execute: parse_payload                *)
(*   "tool_policy"     enforce_tool_policy for invocation ti               *)
(*   "tool_invoke"     tools.invoke for invocation ti                      *)
(*   "inf_policy"      enforce_inference_policy                            *)
(*   "infer"           InferenceRequest::new, adapter.infer, the stream    *)
(*   "record_outbound" entering record_outbound                            *)
(*   "sink"            self.sink.record(outcome)                           *)
(*   "returned"        handle_call has returned callRet                    *)
(***************************************************************************)
ToolNames == {"a", "b"}

RECURSIVE SeqsUpTo(_, _)
SeqsUpTo(S, n) ==
    IF n = 0 THEN {<<>>}
    ELSE LET shorter == SeqsUpTo(S, n - 1) IN
         shorter \cup {Append(q, x) : q \in shorter, x \in S}

\* A prompt message: the k-th message of the payload, or a tool's output.
UserMessage(k) == [role |-> "User", idx |-> k, name |-> ""]
ToolMessage(i, n) == [role |-> "Tool", idx |-> i, name |-> n]

\* Payloads of a Call message: no bytes, bytes that are not a CallPayload,
\* or the JSON of a CallPayload with nmsg messages and a list of tool
\* invocations (by tool name).
Payloads ==
    {[form |-> "empty", nmsg |-> 0, tools |-> <<>>],
     [form |-> "garbage", nmsg |-> 0, tools |-> <<>>]}
    \cup {[form |-> "json", nmsg |-> n, tools |-> ts] :
             n \in 0..MaxMsgs, ts \in SeqsUpTo(ToolNames, MaxTools)}

\* parse_payload: the error, or "Ok".
ParsePayload(p) ==
    IF p.form = "empty" THEN "call payload missing"
    ELSE IF p.form = "garbage" THEN "failed to decode call payload"
    ELSE "Ok"

\* payload.messages of a decoded payload.
PayloadMessages(p) == [k \in 1..p.nmsg |-> UserMessage(k)]

\* What a policy engine may answer: an allow-all engine always allows, an
\* escalate-all engine always escalates; a rule engine gives any decision,
\* or fails (PolicyError).
PolicyKinds == {"None", "AllowAll", "EscalateAll", "Rules"}
Answers(pk) ==
    IF pk = "AllowAll" THEN {"Allow"}
    ELSE IF pk = "EscalateAll" THEN {"Escalate"}
    ELSE {"Allow", "Deny", "Escalate", "Error"}

\* An enforce_decision that lets an escalation pass.
EnforceDecisionEscalatePasses(d) ==
    IF d \in {"Allow", "Escalate"} THEN "Ok"
    ELSE "policy denied"

\* `evaluate(..).map_err(map_policy_error)?` followed by enforce_decision:
\* "Ok" or the handler error.
EnforceDecision(d) ==
    IF d = "Allow" THEN "Ok"
    ELSE IF d = "Deny" THEN "policy denied"
    ELSE IF d = "Escalate" THEN "policy escalation required"
    ELSE "policy engine error"

\* A memory record, by channel; Tool records carry the invocation's index
\* and tool name.
InputRecord == [ch |-> "Input", i |-> 0, name |-> ""]
ToolRecord(i, n) == [ch |-> "Tool", i |-> i, name |-> n]
OutputRecord == [ch |-> "Output", i |-> 0, name |-> ""]

\* A record_outbound that writes the response first.
OutboundRecordsOutputFirst(results) ==
    <<OutputRecord>> \o [i \in 1..Len(results) |-> ToolRecord(i, results[i])]

\* record_outbound: one Tool record per tool result, in order, then the
\* Output record.
OutboundRecords(results) ==
    [i \in 1..Len(results) |-> ToolRecord(i, results[i])] \o <<OutputRecord>>

\* The record that record_inbound / record_outbound is handling.
CurrentRecord ==
    IF oi = 0 THEN InputRecord ELSE OutboundRecords(tool_results)[oi]

\* An entry of the history.
Event(ev, r, rec) == [ev |-> ev, r |-> r, ch |-> rec.ch, i |-> rec.i]
NoRecord == [ch |-> "", i |-> 0, name |-> ""]

\* A failure that goes on to the sink.
FailToSink(err) ==
    /\ cpc' = "sink"
    /\ callRet' = err

\* `?` on an Err: handle_call returns the error.
Fail(err) ==
    /\ cpc' = "returned"
    /\ callRet' = err

\* A memory policy check that is never made.
MemoryPolicyConfiguredNever == FALSE

\* enforce_memory_policy: `let Some(policy) = self.executor.policy()`
MemoryPolicyConfigured == policy # None

\* enforce_tool_policy / enforce_inference_policy:
\* `let Some(policy) = self.policy.as_ref()`
PolicyConfigured == policy # None

\* A push that puts the tool's message in front.
PushMessageFront(ms, m) == <<m>> \o ms

\* messages.push(PromptMessage::new(MessageRole::Tool, content))
PushMessage(ms, m) == Append(ms, m)

\* The observers a handler may be given: none, the tracing observer, the
\* audit observer, or the composite of the two (in that order).
ObserverKinds == {"None", "Tracing", "Audit", "Composite"}

\* The observers a decision reaches: CompositePolicyObserver::on_decision
\* forwards to each of its observers.
Forwarded(ok) ==
    IF ok = "Composite" THEN <<"Tracing", "Audit">> ELSE <<ok>>

\* PolicyAction::label of the request a check of kind ev about rec makes.
Label(ev, rec) ==
    IF ev = "tool_policy" THEN [shape |-> "tool", name |-> rec.name]
    ELSE IF ev = "inference_policy"
    THEN [shape |-> "model", name |-> "provider/model"]
    ELSE [shape |-> "event", name |-> "memory_record"]

\* An audit observer that emits for every decision.
AuditEmitsAlways(d) == TRUE

\* MxpAuditObserver::on_decision:
\* `matches!(decision.kind(), DecisionKind::Deny | DecisionKind::Escalate)`
AuditEmits(d) == d \in {"Deny", "Escalate"}

\* The messages one on_decision call of an observer of kind ok hands to
\* the emitter.
Emitted(ok, d, subject) ==
    IF "Audit" \in {Forwarded(ok)[k] : k \in 1..Len(Forwarded(ok))}
       /\ AuditEmits(d)
    THEN <<[type |-> "Event", subject |-> subject, decision |-> d]>>
    ELSE <<>>

\* A notification that is made only once the decision was enforced.
DecisionEnforced(d) == EnforceDecision(d) = "Ok"

\* `policy.evaluate(&request).await.map_err(..)?` gave a decision: the
\* statements that follow it, notify_policy first, are reached.
DecisionYielded(d) == d # "Error"

\* CallExecutor::notify_policy: `if let Some(observer)`, on_decision.
NotifyPolicy(d, subject) ==
    IF policy_observer = None
    THEN UNCHANGED <<notified, events>>
    ELSE /\ notified' = Append(notified, [decision |-> d,
                                          subject |-> subject])
         /\ events' = events \o Emitted(policy_observer, d, subject)

\* A policy check of kind ev about rec answered with d: nothing happens
\* without an engine; else the evaluation is made, the observer notified
\* of the decision, and the decision enforced.
PolicyCheck(configured, ev, rec, d, next) ==
    IF ~configured
    THEN /\ d = "Allow"
         /\ cpc' = next
         /\ UNCHANGED <<trace, callRet, notified, events>>
    ELSE /\ d \in Answers(policy)
         /\ trace' = Append(trace, Event(ev, d, rec))
         /\ IF DecisionYielded(d)
            THEN NotifyPolicy(d, Label(ev, rec))
            ELSE UNCHANGED <<notified, events>>
         /\ IF EnforceDecision(d) = "Ok"
            THEN cpc' = next /\ UNCHANGED callRet
            ELSE Fail(EnforceDecision(d))

\* record_inbound: `let Some(memory) = &self.memory else { return Ok(()) }`,
\* then the Input record is built from the raw payload bytes.
RecordInbound ==
    /\ cpc = "record_inbound"
    /\ cpc' = IF memory THEN "mem_policy" ELSE "decode"
    /\ UNCHANGED <<payload, memory, policy, ti, oi, messages, tool_results,
                   volatile, journal, sink, adapterIn, callRet, trace>>
    /\ UNCHANGED <<lcVars, schedVars, regVars, libVars, obsVars>>

\* self.enforce_memory_policy(agent_id, &record).await?
MemoryPolicy(d) ==
    /\ cpc = "mem_policy"
    /\ PolicyCheck(MemoryPolicyConfigured, "memory_policy", CurrentRecord, d,
                   "mem_write")
    /\ UNCHANGED <<payload, memory, policy, ti, oi, messages, tool_results,
                   volatile, journal, sink, adapterIn>>
    /\ UNCHANGED <<lcVars, schedVars, regVars, libVars, policy_observer>>

\* memory.record(record).await?: MemoryBus::record pushes to the volatile
\* ring, then appends to the journal (which may fail); the records of the
\* pipeline carry no embedding, so the index is not touched.
MemoryWrite(ok) ==
    /\ cpc = "mem_write"
    /\ volatile' = Append(volatile, CurrentRecord)
    /\ trace' = Append(trace, Event("write", IF ok THEN "Ok" ELSE "Err",
                                    CurrentRecord))
    /\ IF ok
       THEN /\ journal' = Append(journal, CurrentRecord)
            /\ UNCHANGED callRet
            /\ IF oi = 0
               THEN cpc' = "decode" /\ UNCHANGED oi
               ELSE IF oi < Len(OutboundRecords(tool_results))
               THEN cpc' = "mem_policy" /\ oi' = oi + 1
               ELSE cpc' = "sink" /\ UNCHANGED oi
       ELSE /\ Fail("memory error")
            /\ UNCHANGED <<journal, oi>>
    /\ UNCHANGED <<payload, memory, policy, ti, messages, tool_results, sink,
                   adapterIn>>
    /\ UNCHANGED <<lcVars, schedVars, regVars, libVars, obsVars>>

\* CallExecutor::execute: `let payload = parse_payload(ctx)?`, then the
\* locals are set up and the tool loop is entered.
Decode ==
    /\ cpc = "decode"
    /\ trace' = Append(trace, Event("decode", ParsePayload(payload), NoRecord))
    /\ IF ParsePayload(payload) = "Ok"
       THEN /\ messages' = PayloadMessages(payload)
            /\ ti' = 1
            /\ cpc' = IF payload.tools = <<>> THEN "inf_policy"
                      ELSE "tool_policy"
            /\ UNCHANGED callRet
       ELSE /\ Fail(ParsePayload(payload))
            /\ UNCHANGED <<messages, ti>>
    /\ UNCHANGED <<payload, memory, policy, oi, tool_results, volatile,
                   journal, sink, adapterIn>>
    /\ UNCHANGED <<lcVars, schedVars, regVars, libVars, obsVars>>

\* self.enforce_tool_policy(ctx, &invocation).await?
ToolPolicy(d) ==
    /\ cpc = "tool_policy"
    /\ PolicyCheck(PolicyConfigured, "tool_policy",
                   ToolRecord(ti, payload.tools[ti]), d, "tool_invoke")
    /\ UNCHANGED <<payload, memory, policy, ti, oi, messages, tool_results,
                   volatile, journal, sink, adapterIn>>
    /\ UNCHANGED <<lcVars, schedVars, regVars, libVars, policy_observer>>

\* self.tools.invoke(name, input).await.map_err(..)?, then the output is
\* pushed as a Tool message and the result retained.
ToolInvoke(ok) ==
    /\ cpc = "tool_invoke"
    /\ trace' = Append(trace, Event("invoke", IF ok THEN "Ok" ELSE "Err",
                                    ToolRecord(ti, payload.tools[ti])))
    /\ IF ok
       THEN /\ messages' = PushMessage(messages,
                                       ToolMessage(ti, payload.tools[ti]))
            /\ tool_results' = Append(tool_results, payload.tools[ti])
            /\ ti' = ti + 1
            /\ cpc' = IF ti < Len(payload.tools) THEN "tool_policy"
                      ELSE "inf_policy"
            /\ UNCHANGED callRet
       ELSE /\ Fail("tool failed")
            /\ UNCHANGED <<messages, tool_results, ti>>
    /\ UNCHANGED <<payload, memory, policy, oi, volatile, journal, sink,
                   adapterIn>>
    /\ UNCHANGED <<lcVars, schedVars, regVars, libVars, obsVars>>

\* self.enforce_inference_policy(ctx, messages.len(), &tool_names).await?
InferencePolicy(d) ==
    /\ cpc = "inf_policy"
    /\ PolicyCheck(PolicyConfigured, "inference_policy", NoRecord, d, "infer")
    /\ UNCHANGED <<payload, memory, policy, ti, oi, messages, tool_results,
                   volatile, journal, sink, adapterIn>>
    /\ UNCHANGED <<lcVars, schedVars, regVars, libVars, policy_observer>>

\* InferenceRequest::new(messages) (an error when there is no message),
\* then adapter.infer(request) and the reading of its stream up to the
\* chunk that is done; an error of either fails the call.
Infer(ok) ==
    /\ cpc = "infer"
    /\ IF messages = <<>>
       THEN /\ Fail("invalid request")
            /\ UNCHANGED <<adapterIn, trace>>
       ELSE /\ adapterIn' = Append(adapterIn, messages)
            /\ trace' = Append(trace, Event("infer", IF ok THEN "Ok" ELSE "Err",
                                            NoRecord))
            /\ IF ok
               THEN cpc' = "record_outbound" /\ UNCHANGED callRet
               ELSE Fail("adapter error")
    /\ UNCHANGED <<payload, memory, policy, ti, oi, messages, tool_results,
                   volatile, journal, sink>>
    /\ UNCHANGED <<lcVars, schedVars, regVars, libVars, obsVars>>

\* record_outbound: nothing without a memory bus; else the Tool records
\* and the Output record are handled one after the other.
RecordOutbound ==
    /\ cpc = "record_outbound"
    /\ IF memory
       THEN cpc' = "mem_policy" /\ oi' = 1
       ELSE cpc' = "sink" /\ UNCHANGED oi
    /\ UNCHANGED <<payload, memory, policy, ti, messages, tool_results,
                   volatile, journal, sink, adapterIn, callRet, trace>>
    /\ UNCHANGED <<lcVars, schedVars, regVars, libVars, obsVars>>

\* self.sink.record(outcome); Ok(())
Sink ==
    /\ cpc = "sink"
    /\ sink' = Append(sink, tool_results)
    /\ trace' = Append(trace, Event("sink", "Ok", NoRecord))
    /\ cpc' = "returned"
    /\ callRet' = "Ok"
    /\ UNCHANGED <<payload, memory, policy, ti, oi, messages, tool_results,
                   volatile, journal, adapterIn>>
    /\ UNCHANGED <<lcVars, schedVars, regVars, libVars, obsVars>>

\* A handler built with or without a memory bus and a policy engine is
\* given one Call message.
InitCall ==
    /\ agent_id = 1
    /\ state = "Init"
    /\ lcFrom = None
    /\ lcEvent = None
    /\ lcRet = NoReturn
    /\ max_concurrency = 1
    /\ closed = FALSE
    /\ semClosed = FALSE
    /\ permits = max_concurrency
    /\ waiters = <<>>
    /\ pc = [t \in Tasks |-> "none"]
    /\ kind = [t \in Tasks |-> "none"]
    /\ nTasks = 0
    /\ inSpawn = 0
    /\ inClose = 0
    /\ closeReturned = FALSE
    /\ spawnRet = None
    /\ waitLog = <<>>
    /\ grantLog = <<>>
    /\ abortReq = [t \in Tasks |-> FALSE]
    /\ config = None
    /\ shutdown = FALSE
    /\ worker = 0
    /\ wpc = [t \in Tasks |-> None]
    /\ retry_delay = [t \in Tasks |-> 0]
    /\ failures = [t \in Tasks |-> 0]
    /\ lastArm = None
    /\ hookRet = None
    /\ lastReg = [t \in Tasks |-> None]
    /\ regFailRun = [t \in Tasks |-> 0]
    /\ hbFailRun = [t \in Tasks |-> 0]
    /\ payload \in Payloads
    /\ memory \in BOOLEAN
    /\ policy \in PolicyKinds
    /\ cpc = "record_inbound"
    /\ ti = 0
    /\ oi = 0
    /\ messages = <<>>
    /\ tool_results = <<>>
    /\ volatile = <<>>
    /\ journal = <<>>
    /\ sink = <<>>
    /\ adapterIn = <<>>
    /\ callRet = None
    /\ trace = <<>>
    /\ policy_observer \in ObserverKinds
    /\ notified = <<>>
    /\ events = <<>>
    /\ stream = <<>>
    /\ spos = 0
    /\ response = <<>>
    /\ streamRet = None
    /\ rules = <<>>
    /\ default_decision = "Allow"
    /\ ruleLog = <<>>
    /\ evaluated = FALSE
    /\ evalReq = None
    /\ evalRet = None
    /\ capacity = 1
    /\ max_total_bytes = 0
    /\ entries = <<>>
    /\ total_bytes = 0
    /\ pushes = <<>>
    /\ file_bytes = <<>>
    /\ file_lock = 0
    /\ apc = <<>>
    /\ arec = <<>>
    /\ nAppends = 0
    /\ appended = <<>>
    /\ failedAppend = FALSE
    /\ restarts = 0
    /\ tailLimit = 0
    /\ tailRet = None
    /\ vector_store = FALSE
    /\ bus_volatile = <<>>
    /\ bus_journal = <<>>
    /\ bus_index = {}
    /\ bpc = "idle"
    /\ brec = None
    /\ bret = None
    /\ writes = <<>>
    /\ nRecords = 0
    /\ points = <<>>
    /\ query = None
    /\ matches = None
    /\ recentRet = NoRecent
    /\ discarded = {}
    /\ clears = 0
    /\ clearFailed = FALSE
    /\ tool_registry = {}
    /\ toolCalls = 0
    /\ toolRet = NoToolCall
    /\ toolRuns = <<>>
    /\ accepted = {}
    /\ dispatched = {}
    /\ entry = FALSE
    /\ rcalls = <<>>
    /\ rules_lock = "free"
    /\ epc = "idle"
    /\ ei = 1
    /\ addCall = NoAdd
    /\ evalOn = {}

NextCall ==
    \/ RecordInbound
    \/ \E d \in Answers("Rules") : MemoryPolicy(d)
    \/ \E ok \in BOOLEAN : MemoryWrite(ok)
    \/ Decode
    \/ \E d \in Answers("Rules") : ToolPolicy(d)
    \/ \E ok \in BOOLEAN : ToolInvoke(ok)
    \/ \E d \in Answers("Rules") : InferencePolicy(d)
    \/ \E ok \in BOOLEAN : Infer(ok)
    \/ RecordOutbound
    \/ Sink

SpecCall == InitCall /\ [][NextCall]_vars

(***************************************************************************)
(* Claims about the call pipeline (checked under SpecCall).                *)
(***************************************************************************)
\* The entries of the history of the given kinds, in order.
EventsOf(kinds) == SelectSeq(trace, LAMBDA x : x.ev \in kinds)

\* The positions of the history that hold an entry of the given kinds.
Positions(kinds) == {k \in 1..Len(trace) : trace[k].ev \in kinds}

Returned == cpc = "returned"

\* C16 as stated: a call whose payload is empty or not decodable returns
\* the decode error, and neither a memory record was written (to the ring
\* or the journal) nor a policy evaluation made for it.
C16_DecodeBeforeRecording ==
    (Returned /\ ParsePayload(payload) # "Ok") =>
        /\ callRet = ParsePayload(payload)
        /\ volatile = <<>>
        /\ journal = <<>>
        /\ EventsOf({"memory_policy", "tool_policy", "inference_policy",
                     "write"}) = <<>>

\* What the code does with an undecodable payload when a memory bus and a
\* policy engine are configured: the Input record was checked against the
\* policy and written before the decode error is returned.
C16_Witness ==
    /\ Returned
    /\ payload.form = "garbage"
    /\ callRet = "failed to decode call payload"
    /\ journal = <<InputRecord>>
    /\ EventsOf({"memory_policy"}) # <<>>

\* s is an initial segment of q.
IsPrefix(s, q) == Len(s) <= Len(q) /\ s = SubSeq(q, 1, Len(s))

\* The transcript of a call with T tool invocations: Input, one Tool record
\* per invocation in payload order, Output.
Transcript ==
    <<InputRecord>>
    \o [i \in 1..Len(payload.tools) |-> ToolRecord(i, payload.tools[i])]
    \o <<OutputRecord>>

\* C17: with a memory bus, the records written are at every moment an
\* initial segment of Input, Tool 1 .. Tool T, Output, and once handle_call
\* has returned Ok they are exactly these T+2 records, in the ring as in the
\* journal; the Input record is written before any tool is invoked, and
\* every record before the one outcome is handed to the sink.  Without a
\* memory bus nothing is written.
C17_TranscriptOrder ==
    /\ IsPrefix(journal, Transcript)
    /\ ~memory => volatile = <<>> /\ journal = <<>>
    /\ (memory /\ callRet = "Ok") =>
          /\ journal = Transcript
          /\ volatile = Transcript
          /\ Len(journal) = Len(payload.tools) + 2
    /\ memory => \A k \in Positions({"invoke"}) :
                    \E j \in 1..(k - 1) :
                        trace[j] = Event("write", "Ok", InputRecord)
    /\ \A k \in Positions({"sink"}) :
          /\ \A j \in Positions({"write"}) : j < k
          /\ k = Len(trace)
    /\ Len(sink) <= 1
    /\ (callRet = "Ok") <=> (Len(sink) = 1)

\* A call with two tool invocations, a memory bus and an allow-all policy
\* has returned Ok: four records are in the journal.
C17_Witness ==
    /\ Returned
    /\ callRet = "Ok"
    /\ memory
    /\ policy = "AllowAll"
    /\ Len(payload.tools) = 2
    /\ Len(journal) = 4
    /\ Len(sink) = 1

\* The handler error a refusing decision becomes.
RefusalError(d) ==
    IF d = "Deny" THEN "policy denied" ELSE "policy escalation required"

\* C18: a Deny or Escalate answer to a tool or inference policy check is
\* the last thing that happens in the call: handle_call has returned the
\* policy error, the tool that was checked was not invoked and no later
\* tool either, the adapter was not invoked (no inference after a refused
\* tool or inference check), and the sink has received nothing.
C18_RefusalHalts ==
    \A k \in Positions({"tool_policy", "inference_policy"}) :
        trace[k].r \in {"Deny", "Escalate"} =>
            /\ k = Len(trace)
            /\ Returned
            /\ callRet = RefusalError(trace[k].r)
            /\ sink = <<>>
            /\ adapterIn = <<>>
            /\ \A j \in Positions({"invoke"}) : trace[j].i < trace[k].i
                                                   \/ trace[k].i = 0
            /\ Len(tool_results) = Cardinality(Positions({"invoke"}))

\* The second tool of a call was refused by an escalation after the first
\* tool had run.
C18_Witness ==
    /\ Returned
    /\ callRet = "policy escalation required"
    /\ Len(tool_results) = 1
    /\ Len(payload.tools) = 2
    /\ trace[Len(trace)] = Event("tool_policy", "Escalate",
                                 ToolRecord(2, payload.tools[2]))
    /\ sink = <<>>

\* The steps of execute seen so far: policy checks, tool invocations and
\* adapter calls as <<kind, index>>, in order.
ExecuteSteps ==
    LET evs == EventsOf({"tool_policy", "invoke", "inference_policy", "infer"})
    IN  [k \in 1..Len(evs) |-> <<evs[k].ev, evs[k].i>>]

\* The steps of a complete execute for the payload, with a policy engine
\* (check, invoke for each tool in payload order; inference check; adapter)
\* and without one (the same without the checks).
StepsWithPolicy ==
    LET T == Len(payload.tools) IN
    [n \in 1..(2 * T + 2) |->
        IF n <= 2 * T
        THEN IF n % 2 = 1 THEN <<"tool_policy", (n + 1) \div 2>>
             ELSE <<"invoke", n \div 2>>
        ELSE IF n = 2 * T + 1 THEN <<"inference_policy", 0>>
        ELSE <<"infer", 0>>]

StepsWithoutPolicy ==
    LET T == Len(payload.tools) IN
    [n \in 1..(T + 1) |-> IF n <= T THEN <<"invoke", n>> ELSE <<"infer", 0>>]

\* The messages the adapter is to receive: the payload's, then one Tool
\* message per invocation in payload order.
AdapterMessages ==
    PayloadMessages(payload)
    \o [i \in 1..Len(payload.tools) |-> ToolMessage(i, payload.tools[i])]

\* C19: the steps of execute are at every moment an initial segment of:
\* policy check of t1, invocation of t1, policy check of t2, invocation of
\* t2, ..., inference policy check, adapter call; a call that returned Ok
\* made all of them; the adapter is called at most once and receives the
\* payload's messages followed by one Tool message per tool, in payload
\* order.
C19_Sequential ==
    /\ IsPrefix(ExecuteSteps,
                IF policy = None THEN StepsWithoutPolicy ELSE StepsWithPolicy)
    /\ callRet = "Ok" =>
          ExecuteSteps = IF policy = None THEN StepsWithoutPolicy
                         ELSE StepsWithPolicy
    /\ Len(adapterIn) <= 1
    /\ Len(adapterIn) = Cardinality(Positions({"infer"}))
    /\ \A k \in 1..Len(adapterIn) : adapterIn[k] = AdapterMessages

\* A call with a message and two tools, under a rule engine, returned Ok.
C19_Witness ==
    /\ Returned
    /\ callRet = "Ok"
    /\ policy = "Rules"
    /\ payload.nmsg = 1
    /\ Len(payload.tools) = 2
    /\ payload.tools[1] # payload.tools[2]
    /\ Len(adapterIn) = 1
    /\ Len(adapterIn[1]) = 3

\* The record an entry of the history is about is in the given store.
Stored(store, ev) ==
    \E n \in 1..Len(store) : store[n].ch = ev.ch /\ store[n].i = ev.i

\* C20: with a policy engine, every write of a record to the bus comes
\* directly after the memory policy check of that very record answered
\* Allow; and when the check answers Deny or Escalate the record is in
\* neither the volatile ring nor the journal, nothing happens afterwards
\* and handle_call has returned the policy error.
C20_MemoryPolicyGuardsWrites ==
    policy # None =>
        /\ \A k \in Positions({"write"}) :
              /\ k > 1
              /\ trace[k - 1] = [trace[k] EXCEPT !.ev = "memory_policy",
                                                  !.r = "Allow"]
        /\ Len(volatile) = Cardinality(Positions({"write"}))
        /\ \A k \in Positions({"memory_policy"}) :
              trace[k].r \in {"Deny", "Escalate"} =>
                  /\ ~Stored(volatile, trace[k])
                  /\ ~Stored(journal, trace[k])
                  /\ k = Len(trace)
                  /\ Returned
                  /\ callRet = RefusalError(trace[k].r)
                  /\ sink = <<>>

\* The Output record of a call with a tool was denied: the Input and Tool
\* records written before it are in the journal, the Output record is not.
C20_Witness ==
    /\ Returned
    /\ callRet = "policy denied"
    /\ Len(payload.tools) = 1
    /\ trace[Len(trace)] = Event("memory_policy", "Deny", OutputRecord)
    /\ Len(journal) = 2
    /\ volatile = journal

\* The policy checks of the history that gave a decision, in order, each
\* as the notification it calls for.
PolicyEvents == {"tool_policy", "inference_policy", "memory_policy"}

RecordOf(e) ==
    IF e.ev = "tool_policy" THEN ToolRecord(e.i, payload.tools[e.i])
    ELSE NoRecord

Decisions ==
    LET ds == SelectSeq(trace, LAMBDA e : e.ev \in PolicyEvents
                                         /\ e.r # "Error")
    IN [k \in 1..Len(ds) |->
           [decision |-> ds[k].r, subject |-> Label(ds[k].ev, RecordOf(ds[k]))]]

\* C21: with an engine and an observer installed, the observer has been
\* notified exactly once for each policy evaluation (tool, inference,
\* memory) that gave a decision, in order, with that decision and the
\* label of the action, and also of the decision that refused the call
\* (the notification comes before the enforcement); an evaluation that
\* failed notifies nobody.  So a call without memory bus whose first tool
\* is denied ends with exactly one notification: Deny, for that tool.
C21_ObserverNotifiedOnce ==
    /\ (policy # None /\ policy_observer # None) => notified = Decisions
    /\ (policy = None \/ policy_observer = None) => notified = <<>>
    /\ (/\ policy # None /\ policy_observer # None /\ ~memory
        /\ Returned
        /\ trace # <<>>
        /\ trace[Len(trace)] =
               [ev |-> "tool_policy", r |-> "Deny", ch |-> "Tool", i |-> 1])
       => notified = <<[decision |-> "Deny",
                        subject |-> [shape |-> "tool",
                                     name |-> payload.tools[1]]]>>

\* A call without memory bus whose only tool was denied has returned, and
\* the installed observer holds the one notification.
C21_Witness ==
    /\ policy = "Rules" /\ policy_observer = "Tracing" /\ ~memory
    /\ payload.tools = <<"a">>
    /\ Returned
    /\ callRet = "policy denied"
    /\ trace = <<Event("decode", "Ok", NoRecord),
                 Event("tool_policy", "Deny", ToolRecord(1, "a"))>>
    /\ notified = <<[decision |-> "Deny",
                     subject |-> [shape |-> "tool", name |-> "a"]]>>

\* Whether an observer of the installed kind holds an audit observer.
HasAudit == policy_observer \in {"Audit", "Composite"}

\* The refusals among the notifications, each as the message it calls for.
Refusals ==
    LET rs == SelectSeq(notified,
                        LAMBDA n : n.decision \in {"Deny", "Escalate"})
    IN [k \in 1..Len(rs) |->
           [type |-> "Event", subject |-> rs[k].subject,
            decision |-> rs[k].decision]]

\* C22: the audit emitter has received exactly one Event for each Deny or
\* Escalate the audit observer was notified of, and none for an Allow (and
\* none at all without an audit observer).  A call never produces more
\* than one Event, since the first refusal ends it; a call under an
\* escalate-all engine that has made a policy check has returned the
\* escalation error and produced exactly one.
C22_AuditOnePerRefusal ==
    /\ events = (IF HasAudit THEN Refusals ELSE <<>>)
    /\ Len(events) <= 1
    /\ (HasAudit /\ policy = "EscalateAll" /\ Positions(PolicyEvents) # {})
       => /\ Len(events) = 1
          /\ events[1].decision = "Escalate"
          /\ Returned
          /\ callRet = "policy escalation required"
          /\ Cardinality(Positions(PolicyEvents)) = 1

\* A call with one message and no tool under an escalate-all engine, with
\* the composite of the tracing and the audit observer and no memory bus,
\* has failed at the inference policy, and the emitter holds one Event.
C22_Witness ==
    /\ policy = "EscalateAll" /\ policy_observer = "Composite" /\ ~memory
    /\ payload.form = "json" /\ payload.nmsg = 1 /\ payload.tools = <<>>
    /\ Returned
    /\ callRet = "policy escalation required"
    /\ Len(events) = 1
    /\ events[1].subject = [shape |-> "model", name |-> "provider/model"]

(***************************************************************************)
(* call.rs, CallExecutor::execute: the reading of the adapter's stream     *)
(* (`while let Some(chunk) = stream.next().await`), one item per step.     *)
(***************************************************************************)
MaxChunks == 3

\* The texts a chunk may carry: none, one character, two characters.
Deltas == {<<>>, <<"x">>, <<"y", "z">>}

\* What stream.next() may yield: Some(Ok(chunk)) or Some(Err(_)).
Chunks == [delta : Deltas, done : BOOLEAN, err : {FALSE}]
StreamErr == [delta |-> <<>>, done |-> FALSE, err |-> TRUE]
Streams == SeqsUpTo(Chunks \cup {StreamErr}, MaxChunks)

\* A loop that leaves before it takes the text of the terminal chunk.
PushDeltaUnlessDone(r, c) == IF c.done THEN r ELSE r \o c.delta

\* response.push_str(&chunk.delta)
PushDelta(r, c) == r \o c.delta

\* One turn of the loop: stream.next() gives None (the loop ends), an
\* error (`?` returns it), or a chunk whose delta is pushed; `break` on a
\* chunk that is done.
StreamNext ==
    /\ streamRet = None
    /\ IF spos = Len(stream)
       THEN /\ streamRet' = "Ok"
            /\ UNCHANGED <<spos, response>>
       ELSE /\ spos' = spos + 1
            /\ IF stream[spos + 1].err
               THEN /\ streamRet' = "adapter error"
                    /\ UNCHANGED response
               ELSE /\ response' = PushDelta(response, stream[spos + 1])
                    /\ streamRet' = IF stream[spos + 1].done THEN "Ok"
                                    ELSE None
    /\ UNCHANGED stream
    /\ UNCHANGED <<lcVars, schedVars, regVars, callVars, extVars,
                   engineVars, ringVars,
                   journalVars, busVars, storeVars>>

\* adapter.infer(request) has returned a stream; `response` is empty.
InitStream ==
    /\ agent_id = 1
    /\ state = "Init"
    /\ lcFrom = None
    /\ lcEvent = None
    /\ lcRet = NoReturn
    /\ max_concurrency = 1
    /\ closed = FALSE
    /\ semClosed = FALSE
    /\ permits = max_concurrency
    /\ waiters = <<>>
    /\ pc = [t \in Tasks |-> "none"]
    /\ kind = [t \in Tasks |-> "none"]
    /\ nTasks = 0
    /\ inSpawn = 0
    /\ inClose = 0
    /\ closeReturned = FALSE
    /\ spawnRet = None
    /\ waitLog = <<>>
    /\ grantLog = <<>>
    /\ abortReq = [t \in Tasks |-> FALSE]
    /\ config = None
    /\ shutdown = FALSE
    /\ worker = 0
    /\ wpc = [t \in Tasks |-> None]
    /\ retry_delay = [t \in Tasks |-> 0]
    /\ failures = [t \in Tasks |-> 0]
    /\ lastArm = None
    /\ hookRet = None
    /\ lastReg = [t \in Tasks |-> None]
    /\ regFailRun = [t \in Tasks |-> 0]
    /\ hbFailRun = [t \in Tasks |-> 0]
    /\ payload = None
    /\ memory = FALSE
    /\ policy = None
    /\ cpc = None
    /\ ti = 0
    /\ oi = 0
    /\ messages = <<>>
    /\ tool_results = <<>>
    /\ volatile = <<>>
    /\ journal = <<>>
    /\ sink = <<>>
    /\ adapterIn = <<>>
    /\ callRet = None
    /\ trace = <<>>
    /\ policy_observer = None
    /\ notified = <<>>
    /\ events = <<>>
    /\ stream \in Streams
    /\ spos = 0
    /\ response = <<>>
    /\ streamRet = None
    /\ rules = <<>>
    /\ default_decision = "Allow"
    /\ ruleLog = <<>>
    /\ evaluated = FALSE
    /\ evalReq = None
    /\ evalRet = None
    /\ capacity = 1
    /\ max_total_bytes = 0
    /\ entries = <<>>
    /\ total_bytes = 0
    /\ pushes = <<>>
    /\ file_bytes = <<>>
    /\ file_lock = 0
    /\ apc = <<>>
    /\ arec = <<>>
    /\ nAppends = 0
    /\ appended = <<>>
    /\ failedAppend = FALSE
    /\ restarts = 0
    /\ tailLimit = 0
    /\ tailRet = None
    /\ vector_store = FALSE
    /\ bus_volatile = <<>>
    /\ bus_journal = <<>>
    /\ bus_index = {}
    /\ bpc = "idle"
    /\ brec = None
    /\ bret = None
    /\ writes = <<>>
    /\ nRecords = 0
    /\ points = <<>>
    /\ query = None
    /\ matches = None
    /\ recentRet = NoRecent
    /\ discarded = {}
    /\ clears = 0
    /\ clearFailed = FALSE
    /\ tool_registry = {}
    /\ toolCalls = 0
    /\ toolRet = NoToolCall
    /\ toolRuns = <<>>
    /\ accepted = {}
    /\ dispatched = {}
    /\ entry = FALSE
    /\ rcalls = <<>>
    /\ rules_lock = "free"
    /\ epc = "idle"
    /\ ei = 1
    /\ addCall = NoAdd
    /\ evalOn = {}

NextStream == StreamNext

SpecStream == InitStream /\ [][NextStream]_vars

\* The deltas of a sequence of chunks, concatenated in order.
RECURSIVE ConcatDeltas(_)
ConcatDeltas(q) ==
    IF q = <<>> THEN <<>>
    ELSE ConcatDeltas(SubSeq(q, 1, Len(q) - 1)) \o q[Len(q)].delta

\* The positions of the stream that hold a chunk that is done.
DonePositions == {k \in 1..Len(stream) : ~stream[k].err /\ stream[k].done}

\* The first position that holds a done chunk (0: there is none).
FirstDone ==
    IF DonePositions = {} THEN 0
    ELSE CHOOSE k \in DonePositions : \A j \in DonePositions : k <= j

\* C23: the response is the concatenation, in stream order, of the deltas
\* of the chunks read; no item behind the first chunk that is done is
\* read; and when the reading ended well with a done chunk in the stream,
\* the response is the concatenation of the deltas of all chunks up to and
\* including the first done chunk.
C23_ResponseUpToDone ==
    /\ FirstDone # 0 => spos <= FirstDone
    /\ (\A k \in 1..spos : ~stream[k].err)
           => response = ConcatDeltas(SubSeq(stream, 1, spos))
    /\ (streamRet = "Ok" /\ FirstDone # 0)
           => /\ spos = FirstDone
              /\ response = ConcatDeltas(SubSeq(stream, 1, FirstDone))

\* The stream holds a chunk behind its first done chunk, the terminal
\* chunk carries text, and the reading has ended well.
C23_Witness ==
    /\ streamRet = "Ok"
    /\ FirstDone = 2
    /\ Len(stream) = 3
    /\ stream[1].delta # <<>>
    /\ stream[2].delta # <<>>
    /\ stream[3].delta # <<>>
    /\ response = stream[1].delta \o stream[2].delta

(***************************************************************************)
(* agent-policy/engine.rs: RuleBasedEngine, its rules and its matchers.    *)
(***************************************************************************)
MaxRules == 2

DecisionKinds == {"Allow", "Deny", "Escalate"}

\* PolicyAction; a field the variant does not have is "".
InvokeTool(n) ==
    [shape |-> "InvokeTool", name |-> n, provider |-> "", model |-> "",
     event_type |-> ""]
ModelInference(p, m) ==
    [shape |-> "ModelInference", name |-> "", provider |-> p, model |-> m,
     event_type |-> ""]
EmitEvent(t) ==
    [shape |-> "EmitEvent", name |-> "", provider |-> "", model |-> "",
     event_type |-> t]

Actions ==
    {InvokeTool("a"), InvokeTool("b"), ModelInference("p", "m"),
     ModelInference("p", "n"), ModelInference("q", "m"), EmitEvent("e"),
     EmitEvent("f")}

\* PolicyRequest: the action and the tag set of its context.
Requests == [action : Actions, tags : {{}, {"t1"}, {"t1", "t2"}}]

\* ActionMatcher; None is an Option that is not set, and a field the
\* variant does not have is None as well.
MatchAny ==
    [shape |-> "Any", name |-> None, provider |-> None, model |-> None,
     event_type |-> None]
MatchTool(n) ==
    [shape |-> "Tool", name |-> n, provider |-> None, model |-> None,
     event_type |-> None]
MatchModel(p, m) ==
    [shape |-> "Model", name |-> None, provider |-> p, model |-> m,
     event_type |-> None]
MatchEvent(t) ==
    [shape |-> "Event", name |-> None, provider |-> None, model |-> None,
     event_type |-> t]

\* RuleMatcher: the action matcher and the required tags.
Matchers ==
    {[action |-> MatchAny, required_tags |-> {}],
     [action |-> MatchAny, required_tags |-> {"t1", "t2"}],
     [action |-> MatchTool(None), required_tags |-> {}],
     [action |-> MatchTool("a"), required_tags |-> {"t1"}],
     [action |-> MatchModel("p", None), required_tags |-> {}],
     [action |-> MatchModel(None, "m"), required_tags |-> {}],
     [action |-> MatchModel("p", "m"), required_tags |-> {}],
     [action |-> MatchEvent(None), required_tags |-> {}],
     [action |-> MatchEvent("e"), required_tags |-> {}]}

\* PolicyRule: a matcher and the decision it gives.
Rules == [matcher : Matchers, decision : {"Deny", "Escalate"}]

\* `expected.as_ref().is_none_or(|expected| expected == actual)`
IsNoneOr(expected, actual) == expected = None \/ expected = actual

\* ActionMatcher::matches: the match on (self, action).
ActionMatches(m, a) ==
    IF m.shape = "Any" THEN TRUE
    ELSE IF m.shape = "Tool" /\ a.shape = "InvokeTool"
    THEN IsNoneOr(m.name, a.name)
    ELSE IF m.shape = "Model" /\ a.shape = "ModelInference"
    THEN IsNoneOr(m.provider, a.provider) /\ IsNoneOr(m.model, a.model)
    ELSE IF m.shape = "Event" /\ a.shape = "EmitEvent"
    THEN IsNoneOr(m.event_type, a.event_type)
    ELSE FALSE

\* RuleMatcher::matches
MatcherMatches(m, req) ==
    /\ ActionMatches(m.action, req.action)
    /\ \A tag \in m.required_tags : tag \in req.tags

\* An evaluation that lets a later matching rule override an earlier one.
RECURSIVE EvaluateLastMatch(_, _, _, _)
EvaluateLastMatch(rs, dflt, req, k) ==
    IF k > Len(rs) THEN dflt
    ELSE IF MatcherMatches(rs[Len(rs) + 1 - k].matcher, req)
    THEN rs[Len(rs) + 1 - k].decision
    ELSE EvaluateLastMatch(rs, dflt, req, k + 1)

\* RuleBasedEngine::evaluate: `for rule in guard.iter()` from rule k on,
\* returning at the first rule that matches, else the default decision.
RECURSIVE EvaluateFrom(_, _, _, _)
EvaluateFrom(rs, dflt, req, k) ==
    IF k > Len(rs) THEN dflt
    ELSE IF MatcherMatches(rs[k].matcher, req) THEN rs[k].decision
    ELSE EvaluateFrom(rs, dflt, req, k + 1)

\* An add_rule that puts the new rule in front.
AddRuleFront(rs, rule) == <<rule>> \o rs

\* RuleBasedEngine::add_rule: guard.push(rule)
AddRule(rs, rule) == Append(rs, rule)

\* The rule store after add_rule was called for each rule of q in order,
\* on an engine just made.
RECURSIVE AddRules(_)
AddRules(q) ==
    IF q = <<>> THEN <<>>
    ELSE AddRule(AddRules(SubSeq(q, 1, Len(q) - 1)), q[Len(q)])

\* RuleBasedEngine::evaluate, for the request at hand.
Evaluate ==
    /\ evaluated' = TRUE
    /\ evalRet' = EvaluateFrom(rules, default_decision, evalReq, 1)
    /\ UNCHANGED <<rules, default_decision, ruleLog, evalReq>>
    /\ UNCHANGED <<rules_lock, epc, ei, addCall, evalOn>>
    /\ UNCHANGED <<lcVars, schedVars, regVars, callVars, extVars,
                   streamVars, ringVars,
                   journalVars, busVars, storeVars>>

\* An engine made by RuleBasedEngine::new(default_decision) and a series
\* of add_rule calls, and a request for it.
InitEngine ==
    /\ agent_id = 1
    /\ state = "Init"
    /\ lcFrom = None
    /\ lcEvent = None
    /\ lcRet = NoReturn
    /\ max_concurrency = 1
    /\ closed = FALSE
    /\ semClosed = FALSE
    /\ permits = max_concurrency
    /\ waiters = <<>>
    /\ pc = [t \in Tasks |-> "none"]
    /\ kind = [t \in Tasks |-> "none"]
    /\ nTasks = 0
    /\ inSpawn = 0
    /\ inClose = 0
    /\ closeReturned = FALSE
    /\ spawnRet = None
    /\ waitLog = <<>>
    /\ grantLog = <<>>
    /\ abortReq = [t \in Tasks |-> FALSE]
    /\ config = None
    /\ shutdown = FALSE
    /\ worker = 0
    /\ wpc = [t \in Tasks |-> None]
    /\ retry_delay = [t \in Tasks |-> 0]
    /\ failures = [t \in Tasks |-> 0]
    /\ lastArm = None
    /\ hookRet = None
    /\ lastReg = [t \in Tasks |-> None]
    /\ regFailRun = [t \in Tasks |-> 0]
    /\ hbFailRun = [t \in Tasks |-> 0]
    /\ payload = None
    /\ memory = FALSE
    /\ policy = None
    /\ cpc = None
    /\ ti = 0
    /\ oi = 0
    /\ messages = <<>>
    /\ tool_results = <<>>
    /\ volatile = <<>>
    /\ journal = <<>>
    /\ sink = <<>>
    /\ adapterIn = <<>>
    /\ callRet = None
    /\ trace = <<>>
    /\ policy_observer = None
    /\ notified = <<>>
    /\ events = <<>>
    /\ stream = <<>>
    /\ spos = 0
    /\ response = <<>>
    /\ streamRet = None
    /\ ruleLog \in SeqsUpTo(Rules, MaxRules)
    /\ default_decision \in {"Allow", "Deny"}
    /\ rules = AddRules(ruleLog)
    /\ evaluated = FALSE
    /\ evalReq \in Requests
    /\ evalRet = None
    /\ capacity = 1
    /\ max_total_bytes = 0
    /\ entries = <<>>
    /\ total_bytes = 0
    /\ pushes = <<>>
    /\ file_bytes = <<>>
    /\ file_lock = 0
    /\ apc = <<>>
    /\ arec = <<>>
    /\ nAppends = 0
    /\ appended = <<>>
    /\ failedAppend = FALSE
    /\ restarts = 0
    /\ tailLimit = 0
    /\ tailRet = None
    /\ vector_store = FALSE
    /\ bus_volatile = <<>>
    /\ bus_journal = <<>>
    /\ bus_index = {}
    /\ bpc = "idle"
    /\ brec = None
    /\ bret = None
    /\ writes = <<>>
    /\ nRecords = 0
    /\ points = <<>>
    /\ query = None
    /\ matches = None
    /\ recentRet = NoRecent
    /\ discarded = {}
    /\ clears = 0
    /\ clearFailed = FALSE
    /\ tool_registry = {}
    /\ toolCalls = 0
    /\ toolRet = NoToolCall
    /\ toolRuns = <<>>
    /\ accepted = {}
    /\ dispatched = {}
    /\ entry = FALSE
    /\ rcalls = <<>>
    /\ rules_lock = "free"
    /\ epc = "idle"
    /\ ei = 1
    /\ addCall = NoAdd
    /\ evalOn = {}

NextEngine == Evaluate

SpecEngine == InitEngine /\ [][NextEngine]_vars

\* One evaluate() call and add_rule() calls that run concurrently on the
\* engine.  Both take the std RwLock around `rules`: evaluate the read
\* lock for its whole loop, add_rule the write lock for its push.
SmallRules ==
    {[matcher |-> [action |-> MatchAny, required_tags |-> {}],
      decision |-> "Deny"],
     [matcher |-> [action |-> MatchTool("a"), required_tags |-> {"t1"}],
      decision |-> "Escalate"],
     [matcher |-> [action |-> MatchTool(None), required_tags |-> {}],
      decision |-> "Deny"]}

SmallRequests ==
    {[action |-> InvokeTool("a"), tags |-> {"t1"}],
     [action |-> InvokeTool("b"), tags |-> {}],
     [action |-> EmitEvent("e"), tags |-> {}]}

EngineConcOthers ==
    /\ UNCHANGED <<default_decision, evalReq>>
    /\ UNCHANGED <<lcVars, schedVars, regVars, callVars, extVars,
                   streamVars, ringVars, journalVars, busVars, storeVars>>

\* evaluate(request) is called: self.rules.read() is next.
EvalCall ==
    /\ epc = "idle"
    /\ epc' = "lock"
    /\ evalOn' = {rules}
    /\ UNCHANGED <<rules, ruleLog, evaluated, evalRet, rules_lock, ei,
                   addCall>>
    /\ EngineConcOthers

\* RwLock::read: granted unless a writer holds the lock.
EvalLock ==
    /\ epc = "lock"
    /\ rules_lock # "write"
    /\ rules_lock' = "read"
    /\ epc' = "iter"
    /\ ei' = 1
    /\ UNCHANGED <<rules, ruleLog, evaluated, evalRet, addCall, evalOn>>
    /\ EngineConcOthers

\* One turn of `for rule in guard.iter()`: return the decision of a rule
\* that matches, go on to the next rule, or return the default decision at
\* the end; the guard is dropped on return.
EvalIter ==
    /\ epc = "iter"
    /\ IF ei > Len(rules)
       THEN /\ evalRet' = default_decision
            /\ evaluated' = TRUE
            /\ epc' = "done"
            /\ rules_lock' = "free"
            /\ UNCHANGED ei
       ELSE IF MatcherMatches(rules[ei].matcher, evalReq)
       THEN /\ evalRet' = rules[ei].decision
            /\ evaluated' = TRUE
            /\ epc' = "done"
            /\ rules_lock' = "free"
            /\ UNCHANGED ei
       ELSE /\ ei' = ei + 1
            /\ UNCHANGED <<evalRet, evaluated, epc, rules_lock>>
    /\ UNCHANGED <<rules, ruleLog, addCall, evalOn>>
    /\ EngineConcOthers

\* add_rule(rule) is called: self.rules.write() is next.
AddCall(rule) ==
    /\ addCall = NoAdd
    /\ Len(rules) <= MaxRules
    /\ addCall' = [at |-> "lock", rule |-> rule]
    /\ UNCHANGED <<rules, ruleLog, evaluated, evalRet, rules_lock, epc, ei,
                   evalOn>>
    /\ EngineConcOthers

\* RwLock::write: granted when nobody holds the lock.
AddLock ==
    /\ addCall.at = "lock"
    /\ rules_lock = "free"
    /\ rules_lock' = "write"
    /\ addCall' = [addCall EXCEPT !.at = "push"]
    /\ UNCHANGED <<rules, ruleLog, evaluated, evalRet, epc, ei, evalOn>>
    /\ EngineConcOthers

\* guard.push(rule); the guard is dropped.
AddPush ==
    /\ addCall.at = "push"
    /\ rules' = AddRule(rules, addCall.rule)
    /\ ruleLog' = Append(ruleLog, addCall.rule)
    /\ rules_lock' = "free"
    /\ addCall' = NoAdd
    /\ evalOn' = IF epc \in {"lock", "iter"} THEN evalOn \cup {rules'}
                 ELSE evalOn
    /\ UNCHANGED <<evaluated, evalRet, epc, ei>>
    /\ EngineConcOthers

\* An engine with up to MaxRules rules and a request for it.
InitEngineConc ==
    /\ agent_id = 1
    /\ state = "Init"
    /\ lcFrom = None
    /\ lcEvent = None
    /\ lcRet = NoReturn
    /\ max_concurrency = 1
    /\ closed = FALSE
    /\ semClosed = FALSE
    /\ permits = max_concurrency
    /\ waiters = <<>>
    /\ pc = [t \in Tasks |-> "none"]
    /\ kind = [t \in Tasks |-> "none"]
    /\ nTasks = 0
    /\ inSpawn = 0
    /\ inClose = 0
    /\ closeReturned = FALSE
    /\ spawnRet = None
    /\ waitLog = <<>>
    /\ grantLog = <<>>
    /\ abortReq = [t \in Tasks |-> FALSE]
    /\ config = None
    /\ shutdown = FALSE
    /\ worker = 0
    /\ wpc = [t \in Tasks |-> None]
    /\ retry_delay = [t \in Tasks |-> 0]
    /\ failures = [t \in Tasks |-> 0]
    /\ lastArm = None
    /\ hookRet = None
    /\ lastReg = [t \in Tasks |-> None]
    /\ regFailRun = [t \in Tasks |-> 0]
    /\ hbFailRun = [t \in Tasks |-> 0]
    /\ payload = None
    /\ memory = FALSE
    /\ policy = None
    /\ cpc = None
    /\ ti = 0
    /\ oi = 0
    /\ messages = <<>>
    /\ tool_results = <<>>
    /\ volatile = <<>>
    /\ journal = <<>>
    /\ sink = <<>>
    /\ adapterIn = <<>>
    /\ callRet = None
    /\ trace = <<>>
    /\ policy_observer = None
    /\ notified = <<>>
    /\ events = <<>>
    /\ stream = <<>>
    /\ spos = 0
    /\ response = <<>>
    /\ streamRet = None
    /\ ruleLog \in SeqsUpTo(SmallRules, MaxRules)
    /\ default_decision  \in {"Allow", "Deny"}
    /\ rules = AddRules(ruleLog)
    /\ evaluated = FALSE
    /\ evalReq  \in SmallRequests
    /\ evalRet = None
    /\ capacity = 1
    /\ max_total_bytes = 0
    /\ entries = <<>>
    /\ total_bytes = 0
    /\ pushes = <<>>
    /\ file_bytes = <<>>
    /\ file_lock = 0
    /\ apc = <<>>
    /\ arec = <<>>
    /\ nAppends = 0
    /\ appended = <<>>
    /\ failedAppend = FALSE
    /\ restarts = 0
    /\ tailLimit = 0
    /\ tailRet = None
    /\ vector_store = FALSE
    /\ bus_volatile = <<>>
    /\ bus_journal = <<>>
    /\ bus_index = {}
    /\ bpc = "idle"
    /\ brec = None
    /\ bret = None
    /\ writes = <<>>
    /\ nRecords = 0
    /\ points = <<>>
    /\ query = None
    /\ matches = None
    /\ recentRet = NoRecent
    /\ discarded = {}
    /\ clears = 0
    /\ clearFailed = FALSE
    /\ tool_registry = {}
    /\ toolCalls = 0
    /\ toolRet = NoToolCall
    /\ toolRuns = <<>>
    /\ accepted = {}
    /\ dispatched = {}
    /\ entry = FALSE
    /\ rcalls = <<>>
    /\ rules_lock = "free"
    /\ epc = "idle"
    /\ ei = 1
    /\ addCall = NoAdd
    /\ evalOn = {}

NextEngineConc ==
    \/ EvalCall
    \/ EvalLock
    \/ EvalIter
    \/ \E rule \in SmallRules : AddCall(rule)
    \/ AddLock
    \/ AddPush

SpecEngineConc == InitEngineConc /\ [][NextEngineConc]_vars

\* The variant of PolicyAction a matcher shape stands for.
VariantOf(shape) ==
    IF shape = "Tool" THEN "InvokeTool"
    ELSE IF shape = "Model" THEN "ModelInference"
    ELSE "EmitEvent"

\* The claim's acceptance: the action has the matcher's shape, every field
\* the matcher sets equals the action's, and the required tags are all
\* among the request's tags.
Accepts(m, req) ==
    /\ \/ m.action.shape = "Any"
       \/ /\ VariantOf(m.action.shape) = req.action.shape
          /\ \A f \in {"name", "provider", "model", "event_type"} :
                m.action[f] # None => m.action[f] = req.action[f]
    /\ m.required_tags \subseteq req.tags

\* The rules, in insertion order, that accept the last request.
Accepting == {k \in 1..Len(ruleLog) : Accepts(ruleLog[k].matcher, evalReq)}

\* C24: an evaluate() call returns the decision of the first rule in
\* insertion order whose matcher accepts the request, or the default
\* decision if none accepts.
C24_FirstMatchWins ==
    evaluated =>
        IF Accepting = {} THEN evalRet = default_decision
        ELSE \E k \in Accepting :
                /\ \A j \in Accepting : k <= j
                /\ evalRet = ruleLog[k].decision

\* Two rules with different decisions accept the request, the second by
\* its required tags as well, and a third decision is the default.
C24_Witness ==
    /\ evaluated
    /\ Accepting = {1, 2}
    /\ ruleLog[1].decision # ruleLog[2].decision
    /\ ruleLog[1].matcher.action.shape = "Tool"
    /\ ruleLog[2].matcher.required_tags = {"t1", "t2"}
    /\ default_decision = "Allow"
    /\ evalRet = ruleLog[1].decision

(***************************************************************************)
(* agent-memory/volatile.rs: VolatileMemory, a ring of records bounded by  *)
(* a number of entries and, optionally, by a number of payload bytes.      *)
(* A record is modelled by the length of its payload.                      *)
(***************************************************************************)
MaxCapacity == 3
MaxBytes == 4
MaxPayloadLen == 3
MaxPushes == 4

\* usize::saturating_sub
SaturatingSub(a, b) == IF a >= b THEN a - b ELSE 0

\* pop_front and the adjustment of total_bytes that goes with it.
PopFront(ring) ==
    [entries |-> Tail(ring.entries),
     total_bytes |-> SaturatingSub(ring.total_bytes, Head(ring.entries))]

\* `while guard.entries.len() > self.config.capacity().get()`
RECURSIVE EvictByCount(_, _)
EvictByCount(ring, cap) ==
    IF Len(ring.entries) > cap THEN EvictByCount(PopFront(ring), cap)
    ELSE ring

\* A byte cap that evicts nothing.
ByteEvictionNever(ring, limit) == FALSE

\* `while guard.total_bytes > limit && guard.entries.len() > 1`
ByteEvictionGoesOn(ring, limit) ==
    ring.total_bytes > limit /\ Len(ring.entries) > 1

RECURSIVE EvictByBytes(_, _)
EvictByBytes(ring, limit) ==
    IF ByteEvictionGoesOn(ring, limit)
    THEN EvictByBytes(PopFront(ring), limit)
    ELSE ring

\* VolatileMemory::push, under the write lock: count the bytes, push_back,
\* evict by count, then (`if let Some(limit)`) evict by bytes.
PushResult(ring, cap, limit, len) ==
    LET pushed == [entries |-> Append(ring.entries, len),
                   total_bytes |-> ring.total_bytes + len]
        counted == EvictByCount(pushed, cap)
    IN IF limit # 0 THEN EvictByBytes(counted, limit) ELSE counted

Push(len) ==
    /\ Len(pushes) < MaxPushes
    /\ LET after == PushResult([entries |-> entries,
                                total_bytes |-> total_bytes],
                               capacity, max_total_bytes, len)
       IN /\ entries' = after.entries
          /\ total_bytes' = after.total_bytes
    /\ pushes' = Append(pushes, len)
    /\ recentRet' = NoRecent
    /\ UNCHANGED <<capacity, max_total_bytes>>
    /\ UNCHANGED <<lcVars, schedVars, regVars, callVars, extVars,
                   streamVars, engineVars, journalVars, busVars, storeVars>>

\* Iterator::rev
RECURSIVE Rev(_)
Rev(q) == IF q = <<>> THEN <<>> ELSE Append(Rev(Tail(q)), Head(q))

\* Iterator::take
Take(q, n) == SubSeq(q, 1, Min(n, Len(q)))

\* `entries.iter().rev().take(take)` collected as it comes, newest first.
NewestFirst(q, take) == Take(Rev(q), take)

\* `entries.iter().rev().take(take).cloned().collect().into_iter().rev()`
Chronological(q, take) == Rev(Take(Rev(q), take))

\* VolatileMemory::recent(limit), under the read lock.
Recent(limit) ==
    /\ LET take == Min(limit, Len(entries)) IN
       recentRet' = [called |-> TRUE, limit |-> limit,
                     out |-> Chronological(entries, take)]
    /\ UNCHANGED <<capacity, max_total_bytes, entries, total_bytes, pushes>>
    /\ UNCHANGED <<lcVars, schedVars, regVars, callVars, extVars,
                   streamVars, engineVars, journalVars, busVars, storeVars>>

\* VolatileMemory::new(config)
InitRing ==
    /\ agent_id = 1
    /\ state = "Init"
    /\ lcFrom = None
    /\ lcEvent = None
    /\ lcRet = NoReturn
    /\ max_concurrency = 1
    /\ closed = FALSE
    /\ semClosed = FALSE
    /\ permits = max_concurrency
    /\ waiters = <<>>
    /\ pc = [t \in Tasks |-> "none"]
    /\ kind = [t \in Tasks |-> "none"]
    /\ nTasks = 0
    /\ inSpawn = 0
    /\ inClose = 0
    /\ closeReturned = FALSE
    /\ spawnRet = None
    /\ waitLog = <<>>
    /\ grantLog = <<>>
    /\ abortReq = [t \in Tasks |-> FALSE]
    /\ config = None
    /\ shutdown = FALSE
    /\ worker = 0
    /\ wpc = [t \in Tasks |-> None]
    /\ retry_delay = [t \in Tasks |-> 0]
    /\ failures = [t \in Tasks |-> 0]
    /\ lastArm = None
    /\ hookRet = None
    /\ lastReg = [t \in Tasks |-> None]
    /\ regFailRun = [t \in Tasks |-> 0]
    /\ hbFailRun = [t \in Tasks |-> 0]
    /\ payload = None
    /\ memory = FALSE
    /\ policy = None
    /\ cpc = None
    /\ ti = 0
    /\ oi = 0
    /\ messages = <<>>
    /\ tool_results = <<>>
    /\ volatile = <<>>
    /\ journal = <<>>
    /\ sink = <<>>
    /\ adapterIn = <<>>
    /\ callRet = None
    /\ trace = <<>>
    /\ policy_observer = None
    /\ notified = <<>>
    /\ events = <<>>
    /\ stream = <<>>
    /\ spos = 0
    /\ response = <<>>
    /\ streamRet = None
    /\ rules = <<>>
    /\ default_decision = "Allow"
    /\ ruleLog = <<>>
    /\ evaluated = FALSE
    /\ evalReq = None
    /\ evalRet = None
    /\ capacity  \in 1..MaxCapacity
    /\ max_total_bytes  \in 0..MaxBytes
    /\ entries = <<>>
    /\ total_bytes = 0
    /\ pushes = <<>>
    /\ file_bytes = <<>>
    /\ file_lock = 0
    /\ apc = <<>>
    /\ arec = <<>>
    /\ nAppends = 0
    /\ appended = <<>>
    /\ failedAppend = FALSE
    /\ restarts = 0
    /\ tailLimit = 0
    /\ tailRet = None
    /\ vector_store = FALSE
    /\ bus_volatile = <<>>
    /\ bus_journal = <<>>
    /\ bus_index = {}
    /\ bpc = "idle"
    /\ brec = None
    /\ bret = None
    /\ writes = <<>>
    /\ nRecords = 0
    /\ points = <<>>
    /\ query = None
    /\ matches = None
    /\ recentRet = NoRecent
    /\ discarded = {}
    /\ clears = 0
    /\ clearFailed = FALSE
    /\ tool_registry = {}
    /\ toolCalls = 0
    /\ toolRet = NoToolCall
    /\ toolRuns = <<>>
    /\ accepted = {}
    /\ dispatched = {}
    /\ entry = FALSE
    /\ rcalls = <<>>
    /\ rules_lock = "free"
    /\ epc = "idle"
    /\ ei = 1
    /\ addCall = NoAdd
    /\ evalOn = {}

NextRing ==
    \/ \E len \in 0..MaxPayloadLen : Push(len)
    \/ \E limit \in 0..(MaxCapacity + 1) : Recent(limit)

SpecRing == InitRing /\ [][NextRing]_vars

RECURSIVE Sum(_)
Sum(q) == IF q = <<>> THEN 0 ELSE Head(q) + Sum(Tail(q))

\* The last n elements of q.
LastN(q, n) == SubSeq(q, Len(q) - n + 1, Len(q))

\* C25: after each push the ring holds at most `capacity` entries, and with
\* a byte cap either total_bytes is within the cap or exactly one entry
\* remains.  total_bytes is the sum of the payload lengths retained, the
\* entries are the most recent pushes, and the record just pushed is always
\* retained (the byte cap never evicts the last remaining entry).
C25_RingBounds ==
    pushes # <<>> =>
        /\ Len(entries) <= capacity
        /\ max_total_bytes # 0 =>
               (total_bytes <= max_total_bytes \/ Len(entries) = 1)
        /\ total_bytes = Sum(entries)
        /\ Len(entries) >= 1
        /\ entries = LastN(pushes, Len(entries))

\* With a byte cap, a record larger than the cap was pushed onto a ring
\* that held records: it alone remains, above the cap.
C25_Witness ==
    /\ max_total_bytes = 2
    /\ capacity = 3
    /\ Len(pushes) = 3
    /\ pushes[1] > 0 /\ pushes[2] > 0
    /\ entries = <<3>>
    /\ total_bytes = 3

(***************************************************************************)
(* agent-memory/journal.rs: FileJournal, newline-delimited JSON records on *)
(* one file opened for appending.  The file is a sequence of bytes; "LF"   *)
(* is the newline byte and "BS" the backslash.                             *)
(*   apc: "none"      the call has not been made                           *)
(*        "lock"      serialized, awaiting self.file.lock()                *)
(*        "write_all" holding the lock, before write_all(&line)            *)
(*        "write_u8"  before write_u8(b'\n')                               *)
(*        "flush"     before flush()                                       *)
(*        "ok", "err" returned; "cut": the process ended under it          *)
(***************************************************************************)
MaxAppends == 3
MaxRestarts == 1
MaxClears == 1

AppendCalls == 1..MaxAppends

\* The text of a record: what of a MemoryRecord ends up in JSON strings.
Texts == {<<"x">>, <<"LF">>, <<"BS", "n">>}

\* serde_json's string escaping: a newline becomes backslash-n, a
\* backslash two backslashes.
RECURSIVE Escape(_)
Escape(t) ==
    IF t = <<>> THEN <<>>
    ELSE (IF Head(t) = "LF" THEN <<"BS", "n">>
          ELSE IF Head(t) = "BS" THEN <<"BS", "BS">>
          ELSE <<Head(t)>>) \o Escape(Tail(t))

\* A serialization that writes the text as it is.
ToVecRaw(r) == <<"{", ToString(r.id), ":">> \o r.text \o <<"}">>

\* serde_json::to_vec(record): one JSON object, no newline byte in it.
ToVec(r) == <<"{", ToString(r.id), ":">> \o Escape(r.text) \o <<"}">>

\* Unescaping of a JSON string body; <<"bad">> when it is not one.
RECURSIVE Unescape(_)
Unescape(b) ==
    IF b = <<>> THEN <<>>
    ELSE IF Head(b) = "BS"
    THEN IF Len(b) >= 2 /\ b[2] \in {"n", "BS"}
         THEN LET rest == Unescape(SubSeq(b, 3, Len(b))) IN
              IF rest = <<"bad">> THEN rest
              ELSE <<IF b[2] = "n" THEN "LF" ELSE "BS">> \o rest
         ELSE <<"bad">>
    ELSE IF Head(b) \in {"LF", "{", "}", ":"} THEN <<"bad">>
    ELSE LET rest == Unescape(Tail(b)) IN
         IF rest = <<"bad">> THEN rest ELSE <<Head(b)>> \o rest

\* serde_json::from_slice::<MemoryRecord>(chunk)
FromSlice(chunk) ==
    IF /\ Len(chunk) >= 4
       /\ chunk[1] = "{" /\ chunk[3] = ":"
       /\ \E c \in AppendCalls : ToString(c) = chunk[2]
       /\ chunk[Len(chunk)] = "}"
       /\ Unescape(SubSeq(chunk, 4, Len(chunk) - 1)) # <<"bad">>
    THEN [ok |-> TRUE,
          record |-> [id |-> CHOOSE c \in AppendCalls :
                                      ToString(c) = chunk[2],
                      text |-> Unescape(SubSeq(chunk, 4, Len(chunk) - 1))]]
    ELSE [ok |-> FALSE, record |-> [id |-> 0, text |-> <<>>]]

\* data.split(|byte| *byte == b'\n')
RECURSIVE Split(_)
Split(data) ==
    IF \A k \in 1..Len(data) : data[k] # "LF" THEN <<data>>
    ELSE LET k == CHOOSE i \in 1..Len(data) :
                      data[i] = "LF" /\ \A j \in 1..(i - 1) : data[j] # "LF"
         IN <<SubSeq(data, 1, k - 1)>> \o Split(SubSeq(data, k + 1, Len(data)))

\* .filter(|chunk| !chunk.is_empty())
NonEmptyChunks(data) == SelectSeq(Split(data), LAMBDA c : c # <<>>)

\* FileJournal::tail: nothing for limit 0 or an empty file; else every
\* chunk is deserialized (`?` on the first that fails) and the last
\* `limit` records are returned.
TailResult(data, limit) ==
    LET chunks == NonEmptyChunks(data)
        parsed == [k \in 1..Len(chunks) |-> FromSlice(chunks[k])]
        records == [k \in 1..Len(chunks) |-> parsed[k].record]
    IN IF limit = 0 \/ data = <<>>
       THEN [made |-> TRUE, ok |-> TRUE, records |-> <<>>]
       ELSE IF \E k \in 1..Len(chunks) : ~parsed[k].ok
       THEN [made |-> TRUE, ok |-> FALSE, records |-> <<>>]
       ELSE IF Len(records) <= limit
       THEN [made |-> TRUE, ok |-> TRUE, records |-> records]
       ELSE [made |-> TRUE, ok |-> TRUE,
             records |-> SubSeq(records, Len(records) - limit + 1,
                                Len(records))]

NoTail == [made |-> FALSE, ok |-> FALSE, records |-> <<>>]

InFlight == {c \in AppendCalls : apc[c] \in {"lock", "write_all",
                                             "write_u8", "flush"}}

\* The journal moves on: the result of an earlier tail() is history.
TailForgotten ==
    /\ tailLimit' = 0
    /\ tailRet' = NoTail

\* What no call on the journal but clear() touches.
JournalOthers ==
    UNCHANGED <<lcVars, schedVars, regVars, callVars, extVars,
                streamVars, engineVars, ringVars, busVars, storeVars, clearVars>>

\* A lock that everybody gets at once.
LockFreeAlways == TRUE

\* Mutex::lock: granted when nobody holds the mutex.
LockFree == file_lock = 0

\* append(&record) is called: the record is serialized (an error of which
\* returns before anything is written), then the lock is awaited.
AppendCall(t) ==
    /\ nAppends < MaxAppends
    /\ nAppends' = nAppends + 1
    /\ arec' = [arec EXCEPT ![nAppends + 1] = [id |-> nAppends + 1,
                                               text |-> t]]
    /\ apc' = [apc EXCEPT ![nAppends + 1] = "lock"]
    /\ UNCHANGED <<file_bytes, file_lock, appended, failedAppend, restarts>>
    /\ TailForgotten
    /\ JournalOthers

\* `let mut guard = self.file.lock().await`
AppendLock(c) ==
    /\ apc[c] = "lock"
    /\ LockFree
    /\ file_lock' = c
    /\ apc' = [apc EXCEPT ![c] = "write_all"]
    /\ UNCHANGED <<file_bytes, arec, nAppends, appended, failedAppend,
                   restarts>>
    /\ TailForgotten
    /\ JournalOthers

\* An Err of one of the three I/O calls: `?` returns it, the guard drops.
AppendFails(c) ==
    /\ apc' = [apc EXCEPT ![c] = "err"]
    /\ file_lock' = IF file_lock = c THEN 0 ELSE file_lock
    /\ failedAppend' = TRUE

\* guard.write_all(&line).await?: the file is in append mode, so the bytes
\* go to its end; on an error a part of the line (k bytes) may be there.
AppendWriteAll(c, k) ==
    /\ apc[c] = "write_all"
    /\ file_bytes' = file_bytes \o SubSeq(ToVec(arec[c]), 1, k)
    /\ IF k = Len(ToVec(arec[c]))
       THEN /\ apc' = [apc EXCEPT ![c] = "write_u8"]
            /\ UNCHANGED <<file_lock, failedAppend>>
       ELSE AppendFails(c)
    /\ UNCHANGED <<arec, nAppends, appended, restarts>>
    /\ TailForgotten
    /\ JournalOthers

\* guard.write_u8(b'\n').await?
AppendWriteU8(c, ok) ==
    /\ apc[c] = "write_u8"
    /\ IF ok
       THEN /\ file_bytes' = Append(file_bytes, "LF")
            /\ apc' = [apc EXCEPT ![c] = "flush"]
            /\ UNCHANGED <<file_lock, failedAppend>>
       ELSE /\ AppendFails(c)
            /\ UNCHANGED file_bytes
    /\ UNCHANGED <<arec, nAppends, appended, restarts>>
    /\ TailForgotten
    /\ JournalOthers

\* guard.flush().await?; Ok(()): the guard drops.
AppendFlush(c, ok) ==
    /\ apc[c] = "flush"
    /\ IF ok
       THEN /\ apc' = [apc EXCEPT ![c] = "ok"]
            /\ file_lock' = IF file_lock = c THEN 0 ELSE file_lock
            /\ appended' = Append(appended, arec[c])
            /\ UNCHANGED failedAppend
       ELSE /\ AppendFails(c)
            /\ UNCHANGED appended
    /\ UNCHANGED <<file_bytes, arec, nAppends, restarts>>
    /\ TailForgotten
    /\ JournalOthers

\* tail(limit): fs::read(&self.path) and the parsing of what was read.
JournalTail(limit) ==
    /\ tailLimit' = limit
    /\ tailRet' = TailResult(file_bytes, limit)
    /\ UNCHANGED <<file_bytes, file_lock, apc, arec, nAppends, appended,
                   failedAppend, restarts>>
    /\ JournalOthers

\* The process ends and a new one opens the same path (FileJournal::open,
\* append mode): the file keeps its bytes, the calls in flight are gone.
Reopen ==
    /\ restarts < MaxRestarts
    /\ restarts' = restarts + 1
    /\ file_lock' = 0
    /\ apc' = [c \in AppendCalls |-> IF c \in InFlight THEN "cut"
                                     ELSE apc[c]]
    /\ failedAppend' = (failedAppend \/ InFlight # {})
    /\ UNCHANGED <<file_bytes, arec, nAppends, appended>>
    /\ TailForgotten
    /\ JournalOthers

\* A set_len that leaves the file as it is.
SetLenNothing(data, size) == data

\* File::set_len(size) for a size within the file: the first `size` bytes.
SetLen(data, size) == SubSeq(data, 1, size)

\* FileJournal::clear(): the lock, rewind()?, set_len(0)?, flush()?, Ok.
\* `failed` is the I/O call that returned Err ("none": clear returns Ok);
\* when it is flush the file is already cut.  From here on, `appended` and
\* `failedAppend` are about the appends since this call.
JournalClear(failed) ==
    /\ clears < MaxClears
    /\ LockFree
    /\ file_bytes' = IF failed \in {"rewind", "set_len"} THEN file_bytes
                     ELSE SetLen(file_bytes, 0)
    /\ IF failed = "none"
       THEN /\ clears' = clears + 1
            /\ discarded' = discarded \cup {appended[k] :
                                               k \in 1..Len(appended)}
            /\ appended' = <<>>
            /\ failedAppend' = FALSE
            /\ UNCHANGED clearFailed
       ELSE /\ clearFailed' = TRUE
            /\ UNCHANGED <<clears, discarded, appended, failedAppend>>
    /\ UNCHANGED <<file_lock, apc, arec, nAppends, restarts>>
    /\ TailForgotten
    /\ UNCHANGED <<lcVars, schedVars, regVars, callVars, extVars,
                   streamVars, engineVars, ringVars, busVars, storeVars>>

\* FileJournal::open on a path without a file.
InitJournal ==
    /\ agent_id = 1
    /\ state = "Init"
    /\ lcFrom = None
    /\ lcEvent = None
    /\ lcRet = NoReturn
    /\ max_concurrency = 1
    /\ closed = FALSE
    /\ semClosed = FALSE
    /\ permits = max_concurrency
    /\ waiters = <<>>
    /\ pc = [t \in Tasks |-> "none"]
    /\ kind = [t \in Tasks |-> "none"]
    /\ nTasks = 0
    /\ inSpawn = 0
    /\ inClose = 0
    /\ closeReturned = FALSE
    /\ spawnRet = None
    /\ waitLog = <<>>
    /\ grantLog = <<>>
    /\ abortReq = [t \in Tasks |-> FALSE]
    /\ config = None
    /\ shutdown = FALSE
    /\ worker = 0
    /\ wpc = [t \in Tasks |-> None]
    /\ retry_delay = [t \in Tasks |-> 0]
    /\ failures = [t \in Tasks |-> 0]
    /\ lastArm = None
    /\ hookRet = None
    /\ lastReg = [t \in Tasks |-> None]
    /\ regFailRun = [t \in Tasks |-> 0]
    /\ hbFailRun = [t \in Tasks |-> 0]
    /\ payload = None
    /\ memory = FALSE
    /\ policy = None
    /\ cpc = None
    /\ ti = 0
    /\ oi = 0
    /\ messages = <<>>
    /\ tool_results = <<>>
    /\ volatile = <<>>
    /\ journal = <<>>
    /\ sink = <<>>
    /\ adapterIn = <<>>
    /\ callRet = None
    /\ trace = <<>>
    /\ policy_observer = None
    /\ notified = <<>>
    /\ events = <<>>
    /\ stream = <<>>
    /\ spos = 0
    /\ response = <<>>
    /\ streamRet = None
    /\ rules = <<>>
    /\ default_decision = "Allow"
    /\ ruleLog = <<>>
    /\ evaluated = FALSE
    /\ evalReq = None
    /\ evalRet = None
    /\ capacity = 1
    /\ max_total_bytes = 0
    /\ entries = <<>>
    /\ total_bytes = 0
    /\ pushes = <<>>
    /\ file_bytes = <<>>
    /\ file_lock = 0
    /\ apc  = [c \in AppendCalls |-> "none"]
    /\ arec  = [c \in AppendCalls |-> [id |-> 0, text |-> <<>>]]
    /\ nAppends = 0
    /\ appended = <<>>
    /\ failedAppend = FALSE
    /\ restarts = 0
    /\ tailLimit = 0
    /\ tailRet  = NoTail
    /\ vector_store = FALSE
    /\ bus_volatile = <<>>
    /\ bus_journal = <<>>
    /\ bus_index = {}
    /\ bpc = "idle"
    /\ brec = None
    /\ bret = None
    /\ writes = <<>>
    /\ nRecords = 0
    /\ points = <<>>
    /\ query = None
    /\ matches = None
    /\ recentRet = NoRecent
    /\ discarded = {}
    /\ clears = 0
    /\ clearFailed = FALSE
    /\ tool_registry = {}
    /\ toolCalls = 0
    /\ toolRet = NoToolCall
    /\ toolRuns = <<>>
    /\ accepted = {}
    /\ dispatched = {}
    /\ entry = FALSE
    /\ rcalls = <<>>
    /\ rules_lock = "free"
    /\ epc = "idle"
    /\ ei = 1
    /\ addCall = NoAdd
    /\ evalOn = {}

\* The steps of the append() calls in flight.
AppendStep(c) ==
    \/ AppendLock(c)
    \/ \E k \in {0, 1, Len(ToVec(arec[c]))} : AppendWriteAll(c, k)
    \/ \E ok \in BOOLEAN : AppendWriteU8(c, ok)
    \/ \E ok \in BOOLEAN : AppendFlush(c, ok)

\* One caller that awaits each append() before its next call, be it
\* append() or tail(), and appends no more once an append was lost to an
\* error or a restart; the process may be restarted at any time.
NextJournal ==
    \/ \E t \in Texts : InFlight = {} /\ ~failedAppend /\ AppendCall(t)
    \/ \E c \in AppendCalls : AppendStep(c)
    \/ \E limit \in 0..(MaxAppends + 1) : InFlight = {} /\ JournalTail(limit)
    \/ Reopen

SpecJournal == InitJournal /\ [][NextJournal]_vars

\* The same caller in one run of the process, who also clears the journal
\* between its other calls and stops once a clear() has failed.
NextJournalClear ==
    \/ \E t \in Texts :
           InFlight = {} /\ ~failedAppend /\ ~clearFailed /\ AppendCall(t)
    \/ \E c \in AppendCalls : AppendStep(c)
    \/ \E limit \in 0..(MaxAppends + 1) :
           InFlight = {} /\ ~clearFailed /\ JournalTail(limit)
    \/ \E failed \in {"none", "rewind", "set_len", "flush"} :
           InFlight = {} /\ ~clearFailed /\ JournalClear(failed)

SpecJournalClear == InitJournal /\ [][NextJournalClear]_vars

\* Callers that append to the one journal concurrently.
NextJournalConc ==
    \/ \E t \in Texts : AppendCall(t)
    \/ \E c \in AppendCalls : AppendStep(c)

SpecJournalConc == InitJournal /\ [][NextJournalConc]_vars

\* The last n elements of q, all of q when it has no more than n.
LastOf(q, n) == IF Len(q) <= n THEN q ELSE SubSeq(q, Len(q) - n + 1, Len(q))

\* C26: after appends that all returned Ok (none failed, none was cut by a
\* restart, none is in flight), tail(limit) succeeds and returns the last
\* `limit` appended records in append order -- all of them, each once, when
\* limit is at least their number -- also after the file was reopened; so
\* append(r); tail(1) yields r.
C26_TailRoundTrip ==
    (tailRet.made /\ ~failedAppend /\ InFlight = {}) =>
        /\ tailRet.ok
        /\ tailRet.records = LastOf(appended, tailLimit)
        /\ tailLimit >= Len(appended) =>
               /\ tailRet.records = appended
               /\ \A c \in AppendCalls :
                      apc[c] = "ok" =>
                          Cardinality({k \in 1..Len(tailRet.records) :
                                         tailRet.records[k] = arec[c]}) = 1
        /\ (tailLimit = 1 /\ appended # <<>>) =>
               tailRet.records = <<appended[Len(appended)]>>

\* Two records, one with a newline and one with a backslash in its text,
\* were appended, the journal was reopened, and tail(1) answered.
C26_Witness ==
    /\ tailRet.made /\ ~failedAppend /\ InFlight = {}
    /\ restarts >= 1
    /\ Len(appended) >= 2
    /\ \E k \in 1..Len(appended) : appended[k].text = <<"LF">>
    /\ \E k \in 1..Len(appended) : appended[k].text = <<"BS", "n">>
    /\ tailLimit = 1
    /\ tailRet.records = <<appended[Len(appended)]>>

\* All appended records were read back with a limit above their number.
C26_WitnessAll ==
    /\ tailRet.made /\ ~failedAppend /\ InFlight = {}
    /\ Len(appended) = MaxAppends
    /\ tailLimit > Len(appended)
    /\ tailRet.records = appended

\* The pieces of the file that a newline ends, and what follows the last
\* newline.
CompleteLines(data) == SubSeq(Split(data), 1, Len(Split(data)) - 1)

OpenLine(data) == Split(data)[Len(Split(data))]

\* The record of the call that holds the lock and has written its newline.
FlushingRecords ==
    IF file_lock # 0 /\ apc[file_lock] = "flush" THEN <<arec[file_lock]>>
    ELSE <<>>

\* C27: for any interleaving of concurrent append() calls none of which
\* met an I/O error, every line of the file holds exactly one whole record,
\* the lines are the appended records (each exactly once, in the order the
\* calls got the lock) plus the line of the call that is about to flush,
\* and bytes after the last newline are the whole record of the lock
\* holder that has yet to write its newline.
C27_AppendsSerialized ==
    ~failedAppend =>
        LET lines == CompleteLines(file_bytes)
            open == OpenLine(file_bytes)
        IN /\ \A k \in 1..Len(lines) : FromSlice(lines[k]).ok
           /\ [k \in 1..Len(lines) |-> FromSlice(lines[k]).record]
                  = appended \o FlushingRecords
           /\ \A c \in AppendCalls :
                  apc[c] = "ok" =>
                      Cardinality({k \in 1..Len(lines) :
                                     FromSlice(lines[k]).record = arec[c]}) = 1
           /\ IF file_lock # 0 /\ apc[file_lock] = "write_u8"
              THEN /\ FromSlice(open).ok
                   /\ FromSlice(open).record = arec[file_lock]
              ELSE open = <<>>
           /\ Cardinality({c \in AppendCalls :
                             apc[c] \in {"write_all", "write_u8", "flush"}})
                  <= 1

\* Two calls were in flight together, the later call got the lock first and
\* its record is the first line; another call waits for the lock while a
\* third one is between its record and its newline.
C27_Witness ==
    /\ ~failedAppend
    /\ appended # <<>>
    /\ appended[1].id = 2
    /\ \E c \in AppendCalls : apc[c] = "lock"
    /\ file_lock # 0 /\ apc[file_lock] = "write_u8"
    /\ FromSlice(OpenLine(file_bytes)).record = arec[file_lock]

(***************************************************************************)
(* agent-memory/bus.rs: MemoryBus::record, which writes one record to the  *)
(* volatile ring, the journal and the vector store.  A record is its id    *)
(* and whether it carries an embedding; record() calls follow one another. *)
(***************************************************************************)

MaxRecords == 3

BusRecords == [id : 1..MaxRecords, embedding : BOOLEAN]

\* An index that gets every record.
UpsertAlways(store, rec) == TRUE

\* `if let (Some(store), Some(embedding)) =
\*      (&self.vector_store, record.embedding().cloned())`
UpsertWanted(store, rec) == store /\ rec.embedding

\* record(record) is called.
BusRecord(emb) ==
    /\ bpc = "idle"
    /\ nRecords < MaxRecords
    /\ nRecords' = nRecords + 1
    /\ brec' = [id |-> nRecords + 1, embedding |-> emb]
    /\ bret' = None
    /\ writes' = <<>>
    /\ bpc' = "push"
    /\ UNCHANGED <<vector_store, bus_volatile, bus_journal, bus_index>>
    /\ UNCHANGED rcalls
    /\ UNCHANGED <<lcVars, schedVars, regVars, callVars, extVars,
                   streamVars, engineVars, ringVars, journalVars, storeVars>>

\* self.volatile.push(record.clone()).await: the ring keeps the newest
\* records, n of them, at least the one pushed and at most `capacity`
\* (fewer than `capacity` when the byte cap evicts).
BusPush(n) ==
    /\ bpc = "push"
    /\ n \in 1..capacity
    /\ bus_volatile' = LastOf(Append(bus_volatile, brec), n)
    /\ writes' = Append(writes, "volatile")
    /\ bpc' = "append"
    /\ UNCHANGED <<vector_store, bus_journal, bus_index, brec, bret,
                   nRecords>>
    /\ UNCHANGED rcalls
    /\ UNCHANGED <<lcVars, schedVars, regVars, callVars, extVars,
                   streamVars, engineVars, ringVars, journalVars, storeVars>>

\* self.journal.append(&record).await?
BusAppend(ok) ==
    /\ bpc = "append"
    /\ IF ok
       THEN /\ bus_journal' = Append(bus_journal, brec)
            /\ writes' = Append(writes, "journal")
            /\ IF UpsertWanted(vector_store, brec)
               THEN bpc' = "upsert" /\ UNCHANGED bret
               ELSE bpc' = "idle" /\ bret' = "Ok"
       ELSE /\ bpc' = "idle"
            /\ bret' = "JournalErr"
            /\ UNCHANGED <<bus_journal, writes>>
    /\ UNCHANGED <<vector_store, bus_volatile, bus_index, brec, nRecords>>
    /\ UNCHANGED rcalls
    /\ UNCHANGED <<lcVars, schedVars, regVars, callVars, extVars,
                   streamVars, engineVars, ringVars, journalVars, storeVars>>

\* store.upsert(point).await?; Ok(())
BusUpsert(ok) ==
    /\ bpc = "upsert"
    /\ bpc' = "idle"
    /\ IF ok
       THEN /\ bus_index' = bus_index \cup {brec.id}
            /\ writes' = Append(writes, "index")
            /\ bret' = "Ok"
       ELSE /\ bret' = "StoreErr"
            /\ UNCHANGED <<bus_index, writes>>
    /\ UNCHANGED <<vector_store, bus_volatile, bus_journal, brec, nRecords>>
    /\ UNCHANGED rcalls
    /\ UNCHANGED <<lcVars, schedVars, regVars, callVars, extVars,
                   streamVars, engineVars, ringVars, journalVars, storeVars>>

\* MemoryBusBuilder::build: a ring of some capacity, a journal, and a
\* vector store or none.
InitBus ==
    /\ agent_id = 1
    /\ state = "Init"
    /\ lcFrom = None
    /\ lcEvent = None
    /\ lcRet = NoReturn
    /\ max_concurrency = 1
    /\ closed = FALSE
    /\ semClosed = FALSE
    /\ permits = max_concurrency
    /\ waiters = <<>>
    /\ pc = [t \in Tasks |-> "none"]
    /\ kind = [t \in Tasks |-> "none"]
    /\ nTasks = 0
    /\ inSpawn = 0
    /\ inClose = 0
    /\ closeReturned = FALSE
    /\ spawnRet = None
    /\ waitLog = <<>>
    /\ grantLog = <<>>
    /\ abortReq = [t \in Tasks |-> FALSE]
    /\ config = None
    /\ shutdown = FALSE
    /\ worker = 0
    /\ wpc = [t \in Tasks |-> None]
    /\ retry_delay = [t \in Tasks |-> 0]
    /\ failures = [t \in Tasks |-> 0]
    /\ lastArm = None
    /\ hookRet = None
    /\ lastReg = [t \in Tasks |-> None]
    /\ regFailRun = [t \in Tasks |-> 0]
    /\ hbFailRun = [t \in Tasks |-> 0]
    /\ payload = None
    /\ memory = FALSE
    /\ policy = None
    /\ cpc = None
    /\ ti = 0
    /\ oi = 0
    /\ messages = <<>>
    /\ tool_results = <<>>
    /\ volatile = <<>>
    /\ journal = <<>>
    /\ sink = <<>>
    /\ adapterIn = <<>>
    /\ callRet = None
    /\ trace = <<>>
    /\ policy_observer = None
    /\ notified = <<>>
    /\ events = <<>>
    /\ stream = <<>>
    /\ spos = 0
    /\ response = <<>>
    /\ streamRet = None
    /\ rules = <<>>
    /\ default_decision = "Allow"
    /\ ruleLog = <<>>
    /\ evaluated = FALSE
    /\ evalReq = None
    /\ evalRet = None
    /\ capacity  \in 1..MaxCapacity
    /\ max_total_bytes = 0
    /\ entries = <<>>
    /\ total_bytes = 0
    /\ pushes = <<>>
    /\ file_bytes = <<>>
    /\ file_lock = 0
    /\ apc = <<>>
    /\ arec = <<>>
    /\ nAppends = 0
    /\ appended = <<>>
    /\ failedAppend = FALSE
    /\ restarts = 0
    /\ tailLimit = 0
    /\ tailRet = None
    /\ vector_store  \in BOOLEAN
    /\ bus_volatile = <<>>
    /\ bus_journal = <<>>
    /\ bus_index = {}
    /\ bpc = "idle"
    /\ brec = None
    /\ bret = None
    /\ writes = <<>>
    /\ nRecords = 0
    /\ points = <<>>
    /\ query = None
    /\ matches = None
    /\ recentRet = NoRecent
    /\ discarded = {}
    /\ clears = 0
    /\ clearFailed = FALSE
    /\ tool_registry = {}
    /\ toolCalls = 0
    /\ toolRet = NoToolCall
    /\ toolRuns = <<>>
    /\ accepted = {}
    /\ dispatched = {}
    /\ entry = FALSE
    /\ rcalls = <<>>
    /\ rules_lock = "free"
    /\ epc = "idle"
    /\ ei = 1
    /\ addCall = NoAdd
    /\ evalOn = {}

NextBus ==
    \/ \E emb \in BOOLEAN : BusRecord(emb)
    \/ \E n \in 1..MaxCapacity : BusPush(n)
    \/ \E ok \in BOOLEAN : BusAppend(ok)
    \/ \E ok \in BOOLEAN : BusUpsert(ok)

SpecBus == InitBus /\ [][NextBus]_vars

\* Concurrent record() calls on the one bus.  Call c carries the record
\* with id c; each await of record() is a step of its own: the push under
\* the ring's write lock, the append under the journal's file lock, the
\* upsert.
RecordOfCall(c) == [id |-> c, embedding |-> rcalls[c].embedding]

ConcOthers ==
    /\ UNCHANGED <<bpc, brec, bret, writes, nRecords>>
    /\ UNCHANGED <<lcVars, schedVars, regVars, callVars, extVars,
                   streamVars, engineVars, ringVars, journalVars, storeVars>>

\* record(record) is called by one more caller.
ConcRecord(emb) ==
    /\ Len(rcalls) < MaxRecords
    /\ rcalls' = Append(rcalls, [at |-> "push", embedding |-> emb])
    /\ UNCHANGED <<vector_store, bus_volatile, bus_journal, bus_index>>
    /\ ConcOthers

\* self.volatile.push(record.clone()).await of call c.
ConcPush(c, n) ==
    /\ rcalls[c].at = "push"
    /\ n \in 1..capacity
    /\ bus_volatile' = LastOf(Append(bus_volatile, RecordOfCall(c)), n)
    /\ rcalls' = [rcalls EXCEPT ![c].at = "append"]
    /\ UNCHANGED <<vector_store, bus_journal, bus_index>>
    /\ ConcOthers

\* self.journal.append(&record).await? of call c.
ConcAppend(c, ok) ==
    /\ rcalls[c].at = "append"
    /\ IF ok
       THEN /\ bus_journal' = Append(bus_journal, RecordOfCall(c))
            /\ rcalls' = [rcalls EXCEPT
                             ![c].at = IF UpsertWanted(vector_store,
                                                       RecordOfCall(c))
                                       THEN "upsert" ELSE "ok"]
       ELSE /\ rcalls' = [rcalls EXCEPT ![c].at = "err"]
            /\ UNCHANGED bus_journal
    /\ UNCHANGED <<vector_store, bus_volatile, bus_index>>
    /\ ConcOthers

\* store.upsert(point).await?; Ok(()) of call c.
ConcUpsert(c, ok) ==
    /\ rcalls[c].at = "upsert"
    /\ rcalls' = [rcalls EXCEPT ![c].at = IF ok THEN "ok" ELSE "err"]
    /\ bus_index' = IF ok THEN bus_index \cup {c} ELSE bus_index
    /\ UNCHANGED <<vector_store, bus_volatile, bus_journal>>
    /\ ConcOthers

NextBusConc ==
    \/ \E emb \in BOOLEAN : ConcRecord(emb)
    \/ \E c \in 1..Len(rcalls), n \in 1..MaxCapacity : ConcPush(c, n)
    \/ \E c \in 1..Len(rcalls), ok \in BOOLEAN : ConcAppend(c, ok)
    \/ \E c \in 1..Len(rcalls), ok \in BOOLEAN : ConcUpsert(c, ok)

SpecBusConc == InitBus /\ [][NextBusConc]_vars

Holds(q, r) == \E k \in 1..Len(q) : q[k] = r

\* C28: record() writes in the order volatile ring, journal, index.  When
\* it returns Ok the record is in the ring and in the journal, and it was
\* upserted iff it carries an embedding and a vector store is configured.
\* When the journal append fails the error is returned, the record stays
\* in the ring and the index is not touched.
C28_RecordOrder ==
    /\ IsPrefix(writes, <<"volatile", "journal", "index">>)
    /\ (bpc = "idle" /\ bret = "Ok") =>
           /\ Holds(bus_volatile, brec)
           /\ Holds(bus_journal, brec)
           /\ brec.id \in bus_index <=> (brec.embedding /\ vector_store)
           /\ writes = IF brec.embedding /\ vector_store
                       THEN <<"volatile", "journal", "index">>
                       ELSE <<"volatile", "journal">>
    /\ (bpc = "idle" /\ bret = "JournalErr") =>
           /\ Holds(bus_volatile, brec)
           /\ ~Holds(bus_journal, brec)
           /\ brec.id \notin bus_index
           /\ writes = <<"volatile">>

\* With a vector store configured: a record with an embedding was stored
\* in all three, then the journal refused one with an embedding.
C28_Witness ==
    /\ vector_store
    /\ bpc = "idle" /\ bret = "JournalErr"
    /\ brec.embedding
    /\ Holds(bus_volatile, brec)
    /\ bus_index # {}
    /\ bus_journal # <<>>

\* A record without an embedding was stored with a vector store configured:
\* the index stayed as it was.
C28_WitnessNoEmbedding ==
    /\ vector_store
    /\ bpc = "idle" /\ bret = "Ok"
    /\ ~brec.embedding
    /\ brec.id \notin bus_index

(***************************************************************************)
(* agent-memory/vector_store_api.rs: LocalVectorStore::query, cosine       *)
(* similarity over the stored points.  An f32 is a natural number up to    *)
(* FMax (the largest finite value), Inf or NaN: a sum or product above     *)
(* FMax is Inf, Inf * 0 is NaN.  A magnitude is kept as its square, and a  *)
(* finite score as the pair d, m that stands for d / sqrt(m).              *)
(***************************************************************************)

MaxPoints == 3
MaxTopK == 3

\* f32::MAX
FMax == 2

Inf == FMax + 1

NaN == 0 - 1

\* f32 addition and multiplication of values that are not negative.
FAdd(a, b) ==
    IF a = NaN \/ b = NaN THEN NaN
    ELSE IF a = Inf \/ b = Inf THEN Inf
    ELSE IF a + b > FMax THEN Inf
    ELSE a + b

FMul(a, b) ==
    IF a = NaN \/ b = NaN THEN NaN
    ELSE IF (a = Inf /\ b = 0) \/ (a = 0 /\ b = Inf) THEN NaN
    ELSE IF a = Inf \/ b = Inf THEN Inf
    ELSE IF a * b > FMax THEN Inf
    ELSE a * b

\* EmbeddingVector::new accepts vectors that are not empty and whose
\* values are all finite.
Embeddings == {<<1>>, <<1, 0>>, <<1, 1>>, <<0, 0>>, <<FMax, FMax>>}

QueryEmbeddings == {<<1, 0>>, <<1, 1>>, <<FMax, FMax>>}

\* EmbeddingVector::dot: zip, multiply, sum
RECURSIVE Dot(_, _)
Dot(x, y) ==
    IF x = <<>> \/ y = <<>> THEN 0
    ELSE FAdd(FMul(Head(x), Head(y)), Dot(Tail(x), Tail(y)))

\* The sum of squares under the square root of EmbeddingVector::magnitude.
SquareSum(x) == Dot(x, x)

\* lhs.magnitude() * rhs.magnitude(), from the two sums of squares.
Denominator(ml, mr) ==
    IF (ml = Inf /\ mr = 0) \/ (ml = 0 /\ mr = Inf) THEN [k |-> "nan", sq |-> 0]
    ELSE IF ml = Inf \/ mr = Inf THEN [k |-> "inf", sq |-> 0]
    ELSE IF ml = 0 \/ mr = 0 THEN [k |-> "zero", sq |-> 0]
    ELSE [k |-> "fin", sq |-> ml * mr]

Zero == [k |-> "fin", d |-> 0, m |-> 1]

NaNScore == [k |-> "nan", d |-> 0, m |-> 1]

InfScore == [k |-> "inf", d |-> 0, m |-> 1]

\* cosine_similarity: 0.0 for a zero denominator, else the f32 quotient.
CosineSimilarity(lhs, rhs) ==
    LET numerator == Dot(lhs, rhs)
        denominator == Denominator(SquareSum(lhs), SquareSum(rhs))
    IN IF denominator.k = "zero" THEN Zero
       ELSE IF denominator.k = "nan" \/ numerator = NaN THEN NaNScore
       ELSE IF denominator.k = "inf"
       THEN IF numerator = Inf THEN NaNScore ELSE Zero
       ELSE IF numerator = Inf THEN InfScore
       ELSE IF numerator = 0 THEN Zero
       ELSE [k |-> "fin", d |-> numerator, m |-> denominator.sq]

\* a < b for two scores neither of which is NaN.
ScoreLess(a, b) ==
    IF a.k = "inf" THEN FALSE
    ELSE IF b.k = "inf" THEN TRUE
    ELSE a.d * a.d * b.m < b.d * b.d * a.m

\* The comparator of the sort says Less:
\* b.score.partial_cmp(&a.score).unwrap_or(Ordering::Equal) == Less
IsLess(a, b) ==
    /\ a.score.k # "nan" /\ b.score.k # "nan"
    /\ ScoreLess(b.score, a.score)

\* A comparator that puts the smaller score first.
IsLessAscending(a, b) ==
    /\ a.score.k # "nan" /\ b.score.k # "nan"
    /\ ScoreLess(a.score, b.score)

\* slice::sort_by on a short slice is an insertion sort; the standard
\* library has inserted from the left (insert_tail) and from the right
\* (insert_head), depending on its version.
RECURSIVE InsertTail(_, _)
InsertTail(sorted, x) ==
    IF sorted = <<>> THEN <<x>>
    ELSE IF IsLess(x, sorted[Len(sorted)])
    THEN Append(InsertTail(SubSeq(sorted, 1, Len(sorted) - 1), x),
                sorted[Len(sorted)])
    ELSE Append(sorted, x)

RECURSIVE SortShiftLeft(_)
SortShiftLeft(q) ==
    IF q = <<>> THEN <<>>
    ELSE InsertTail(SortShiftLeft(SubSeq(q, 1, Len(q) - 1)), q[Len(q)])

RECURSIVE InsertHead(_, _)
InsertHead(x, sorted) ==
    IF sorted = <<>> THEN <<x>>
    ELSE IF IsLess(Head(sorted), x)
    THEN <<Head(sorted)>> \o InsertHead(x, Tail(sorted))
    ELSE <<x>> \o sorted

RECURSIVE SortInsertHead(_)
SortInsertHead(q) ==
    IF q = <<>> THEN <<>>
    ELSE InsertHead(Head(q), SortInsertHead(Tail(q)))

Sorters == {"insert_tail", "insert_head"}

SortBy(q, sorter) ==
    IF sorter = "insert_tail" THEN SortShiftLeft(q) ELSE SortInsertHead(q)

\* Vec::truncate
Truncate(q, n) == IF Len(q) <= n THEN q ELSE SubSeq(q, 1, n)

\* The tag test of the loop: no required tags, or all of them on the point.
TagsPass(point, q) == q.tags = {} \/ q.tags \subseteq point.tags

\* A point the loop does not skip.
Qualifies(point, q) ==
    /\ TagsPass(point, q)
    /\ Len(point.embedding) = Len(q.embedding)

\* VectorMatch::new(point.id(), score, ..., point.tags().to_vec())
MatchOf(point, q) ==
    [id |-> point.id, score |-> CosineSimilarity(point.embedding, q.embedding),
     tags |-> point.tags]

\* The matches pushed by the loop over guard.values().
Pushed(ps, q) ==
    LET kept == SelectSeq(ps, LAMBDA p : Qualifies(p, q))
    IN [k \in 1..Len(kept) |-> MatchOf(kept[k], q)]

\* LocalVectorStore::query
Query(sorter) ==
    /\ matches = None
    /\ matches' = Truncate(SortBy(Pushed(points, query), sorter), query.top_k)
    /\ UNCHANGED <<points, query>>
    /\ UNCHANGED <<lcVars, schedVars, regVars, callVars, extVars,
                   streamVars, engineVars, ringVars, journalVars, busVars>>

PointKinds == [embedding : Embeddings, tags : {{"a"}, {"a", "b"}}]

\* The stores of up to MaxPoints points; the id of a point is its place in
\* the order in which HashMap::values yields the points.
Stores ==
    UNION {{[k \in 1..n |-> [id |-> k, embedding |-> f[k].embedding,
                             tags |-> f[k].tags]] :
               f \in [1..n -> PointKinds]} : n \in 0..MaxPoints}

Queries == [embedding : QueryEmbeddings, top_k : 1..MaxTopK,
            tags : {{}, {"a", "b"}}]

\* A store after some upserts, and a query.
InitStore ==
    /\ agent_id = 1
    /\ state = "Init"
    /\ lcFrom = None
    /\ lcEvent = None
    /\ lcRet = NoReturn
    /\ max_concurrency = 1
    /\ closed = FALSE
    /\ semClosed = FALSE
    /\ permits = max_concurrency
    /\ waiters = <<>>
    /\ pc = [t \in Tasks |-> "none"]
    /\ kind = [t \in Tasks |-> "none"]
    /\ nTasks = 0
    /\ inSpawn = 0
    /\ inClose = 0
    /\ closeReturned = FALSE
    /\ spawnRet = None
    /\ waitLog = <<>>
    /\ grantLog = <<>>
    /\ abortReq = [t \in Tasks |-> FALSE]
    /\ config = None
    /\ shutdown = FALSE
    /\ worker = 0
    /\ wpc = [t \in Tasks |-> None]
    /\ retry_delay = [t \in Tasks |-> 0]
    /\ failures = [t \in Tasks |-> 0]
    /\ lastArm = None
    /\ hookRet = None
    /\ lastReg = [t \in Tasks |-> None]
    /\ regFailRun = [t \in Tasks |-> 0]
    /\ hbFailRun = [t \in Tasks |-> 0]
    /\ payload = None
    /\ memory = FALSE
    /\ policy = None
    /\ cpc = None
    /\ ti = 0
    /\ oi = 0
    /\ messages = <<>>
    /\ tool_results = <<>>
    /\ volatile = <<>>
    /\ journal = <<>>
    /\ sink = <<>>
    /\ adapterIn = <<>>
    /\ callRet = None
    /\ trace = <<>>
    /\ policy_observer = None
    /\ notified = <<>>
    /\ events = <<>>
    /\ stream = <<>>
    /\ spos = 0
    /\ response = <<>>
    /\ streamRet = None
    /\ rules = <<>>
    /\ default_decision = "Allow"
    /\ ruleLog = <<>>
    /\ evaluated = FALSE
    /\ evalReq = None
    /\ evalRet = None
    /\ capacity = 1
    /\ max_total_bytes = 0
    /\ entries = <<>>
    /\ total_bytes = 0
    /\ pushes = <<>>
    /\ file_bytes = <<>>
    /\ file_lock = 0
    /\ apc = <<>>
    /\ arec = <<>>
    /\ nAppends = 0
    /\ appended = <<>>
    /\ failedAppend = FALSE
    /\ restarts = 0
    /\ tailLimit = 0
    /\ tailRet = None
    /\ vector_store = FALSE
    /\ bus_volatile = <<>>
    /\ bus_journal = <<>>
    /\ bus_index = {}
    /\ bpc = "idle"
    /\ brec = None
    /\ bret = None
    /\ writes = <<>>
    /\ nRecords = 0
    /\ points  \in Stores
    /\ query  \in Queries
    /\ matches = None
    /\ recentRet = NoRecent
    /\ discarded = {}
    /\ clears = 0
    /\ clearFailed = FALSE
    /\ tool_registry = {}
    /\ toolCalls = 0
    /\ toolRet = NoToolCall
    /\ toolRuns = <<>>
    /\ accepted = {}
    /\ dispatched = {}
    /\ entry = FALSE
    /\ rcalls = <<>>
    /\ rules_lock = "free"
    /\ epc = "idle"
    /\ ei = 1
    /\ addCall = NoAdd
    /\ evalOn = {}

NextStore == \E sorter \in Sorters : Query(sorter)

SpecStore == InitStore /\ [][NextStore]_vars

\* a >= b as f32 values: false when either is NaN.
ScoreGeq(a, b) == a.k # "nan" /\ b.k # "nan" /\ ~ScoreLess(a, b)

\* The stored entries that carry all required tags and have the
\* dimensionality of the query.
Qualifying ==
    {k \in 1..Len(points) :
        /\ query.tags \subseteq points[k].tags
        /\ Len(points[k].embedding) = Len(query.embedding)}

\* Every returned match is a qualifying stored entry, and there are at most
\* min(k, number of qualifying entries) of them.
MatchesQualify ==
    /\ \A k \in 1..Len(matches) :
           /\ matches[k].id \in Qualifying
           /\ matches[k].tags = points[matches[k].id].tags
    /\ \A j, k \in 1..Len(matches) : j # k => matches[j].id # matches[k].id
    /\ Len(matches) <= Min(query.top_k, Cardinality(Qualifying))

\* C29: for every query, every returned match is a stored entry with all
\* required tags and the dimensionality of the query embedding, the scores
\* of the returned matches are non-increasing, and there are at most
\* min(k, number of qualifying entries) matches.
C29_QueryContract ==
    matches # None =>
        /\ MatchesQualify
        /\ \A k \in 1..(Len(matches) - 1) :
               ScoreGeq(matches[k].score, matches[k + 1].score)

\* A query returned a score that is NaN between two scores of which the
\* later is the greater.
C29_Witness ==
    /\ matches # None
    /\ Len(matches) = 3
    /\ matches[2].score.k = "nan"
    /\ matches[1].score.k = "fin" /\ matches[3].score.k = "fin"
    /\ ScoreLess(matches[1].score, matches[3].score)

\* What holds of every query: the matches qualify and are within the
\* count, and scores none of which is NaN are non-increasing.
C29_SortedUnlessNaN ==
    matches # None =>
        /\ MatchesQualify
        /\ (\A k \in 1..Len(matches) : matches[k].score.k # "nan") =>
               \A k \in 1..(Len(matches) - 1) :
                   ScoreGeq(matches[k].score, matches[k + 1].score)

(***************************************************************************)
(* Terminate or Abort of an agent that is Terminated already, through      *)
(* AgentKernel::transition.                                                *)
(***************************************************************************)

\* A transition with event e that finds the agent Terminated.
ReTerminate(e) ==
    /\ state = "Terminated"
    /\ lcEvent' = e
    /\ KernelTransition(e)

DeregisterTasks == {t \in Tasks : kind[t] = "dereg"}

\* C30: Terminate or Abort while already Terminated succeeds and leaves the
\* state Terminated; through AgentKernel::transition the registration
\* controller does nothing for it: no further deregister task is
\* scheduled, and no field of the controller or the scheduler changes.
C30_NoChangeNoAction ==
    [][\A e \in {"Terminate", "Abort"} :
          ReTerminate(e) =>
              /\ state' = "Terminated"
              /\ lcRet'.ok
              /\ hookRet' = "Ok"
              /\ nTasks' = nTasks
              /\ UNCHANGED <<kind, pc, shutdown, worker, abortReq>>
      ]_vars

\* The agent was Terminated, which scheduled a deregister task; a further
\* Terminate or Abort returned Ok and there are two deregister tasks.
C30_Witness ==
    /\ lcFrom = "Terminated"
    /\ lcEvent \in {"Terminate", "Abort"}
    /\ state = "Terminated"
    /\ KernelRet = "Ok"
    /\ Cardinality(DeregisterTasks) = 2

\* What such a transition does: the lifecycle returns Ok(Terminated) and
\* keeps its state, and on_state_change(Terminated) runs once more: on an
\* open scheduler it schedules one more deregister task, on a closed one it
\* fails with Closed.
C30_ReTerminateDeregisters ==
    [][\A e \in {"Terminate", "Abort"} :
          ReTerminate(e) =>
              /\ state' = "Terminated"
              /\ lcRet'.ok
              /\ shutdown'
              /\ IF is_closed
                 THEN hookRet' = "Closed" /\ nTasks' = nTasks
                 ELSE /\ hookRet' = "Ok"
                      /\ nTasks' = nTasks + 1
                      /\ kind'[nTasks + 1] = "dereg"
      ]_vars

(***************************************************************************)
(* Further claims about the call pipeline (checked under SpecCall).        *)
(***************************************************************************)

\* A step of execute has failed: a tool or inference check was not
\* allowed, a tool or the adapter (or its stream) returned an error, or the
\* inference request could not be built.
ExecuteFailed ==
    \/ \E k \in Positions({"tool_policy", "invoke", "inference_policy",
                           "infer"}) : trace[k].r \notin {"Ok", "Allow"}
    \/ callRet = "invalid request"

\* C31: when a call with a memory bus fails in execute, after its inbound
\* record was written, handle_call has returned that error, the Input
\* record is all that is in the ring and the journal (no Tool record, also
\* for tools that ran, and no Output record), and the sink got no outcome.
C31_NoRollback ==
    (memory /\ ExecuteFailed) =>
        /\ Returned
        /\ callRet \notin {"Ok", None}
        /\ journal = <<InputRecord>>
        /\ volatile = <<InputRecord>>
        /\ EventsOf({"write"}) = <<Event("write", "Ok", InputRecord)>>
        /\ sink = <<>>
        /\ EventsOf({"sink"}) = <<>>

\* The first tool of a call with a memory bus ran, the second failed: the
\* Input record alone is in the journal.
C31_Witness ==
    /\ memory
    /\ Returned
    /\ callRet = "tool failed"
    /\ Len(payload.tools) = 2
    /\ Len(tool_results) = 1
    /\ journal = <<InputRecord>>
    /\ sink = <<>>

(***************************************************************************)
(* Further claims about the ring (checked under SpecRing).                 *)
(***************************************************************************)
\* C32: the ring holds a contiguous suffix of the sequence of pushes, in
\* push order, that ends with the most recent push; recent(n) returns the
\* last min(n, count) retained records, oldest of them first.
C32_RecentSuffix ==
    /\ entries = LastN(pushes, Len(entries))
    /\ pushes # <<>> =>
           /\ entries # <<>>
           /\ entries[Len(entries)] = pushes[Len(pushes)]
    /\ recentRet.called =>
           /\ Len(recentRet.out) = Min(recentRet.limit, Len(entries))
           /\ recentRet.out = LastN(entries, Len(recentRet.out))
           /\ recentRet.out = LastN(pushes, Len(recentRet.out))

\* Capacity 2, three records of different sizes pushed, and recent() asked
\* for more than the ring holds: it returns the second and the third.
C32_Witness ==
    /\ capacity = 2
    /\ max_total_bytes = 0
    /\ Len(pushes) = 3
    /\ pushes[1] # pushes[2] /\ pushes[2] # pushes[3] /\ pushes[1] # pushes[3]
    /\ recentRet.called
    /\ recentRet.limit = MaxCapacity + 1
    /\ recentRet.out = <<pushes[2], pushes[3]>>

(***************************************************************************)
(* Further claims about the journal (checked under SpecJournalClear).      *)
(***************************************************************************)
\* The records of a sequence, as a set.
Range(q) == {q[k] : k \in 1..Len(q)}

\* C33: once clear() has returned Ok, tail(n) is empty for every n until
\* the next append; no record appended before the clear is returned by any
\* later tail(); and the records appended after it are returned by tail in
\* append order, as from an empty log.
C33_ClearEmpties ==
    (clears > 0 /\ ~failedAppend /\ ~clearFailed /\ InFlight = {}) =>
        /\ \A n \in 0..(MaxAppends + 1) :
               /\ TailResult(file_bytes, n).ok
               /\ TailResult(file_bytes, n).records = LastOf(appended, n)
               /\ Range(TailResult(file_bytes, n).records) \cap discarded = {}
        /\ appended = <<>> => file_bytes = <<>>
        /\ tailRet.made =>
               /\ tailRet.records = LastOf(appended, tailLimit)
               /\ Range(tailRet.records) \cap discarded = {}

\* Two records were appended, the journal was cleared, a third record was
\* appended, and a tail() for more than one record returned the third only.
C33_Witness ==
    /\ clears = 1 /\ ~failedAppend /\ ~clearFailed /\ InFlight = {}
    /\ Cardinality(discarded) = 2
    /\ Len(appended) = 1
    /\ tailRet.made /\ tailLimit >= 2
    /\ tailRet.records = appended

\* The journal was cleared and asked for its tail before any new append.
C33_WitnessEmpty ==
    /\ clears = 1 /\ ~clearFailed
    /\ discarded # {}
    /\ appended = <<>>
    /\ tailRet.made /\ tailLimit >= 1
    /\ tailRet.ok /\ tailRet.records = <<>>

(***************************************************************************)
(* agent-tools/registry.rs: ToolRegistry, a map from tool names to handles *)
(* (metadata and executor) behind a RwLock.  The map is the set of its     *)
(* handles; a handle is [name, version, executor].                         *)
(***************************************************************************)
MaxToolCalls == 4

RegistryNames == {"echo", "missing"}
Versions == {"1.0.0", "1.0.1"}
Executors == {1, 2}

\* A map in which no key is ever found.
ContainsKeyNever(map, name) == FALSE

\* HashMap::contains_key
ContainsKey(map, name) == \E h \in map : h.name = name

\* HashMap::insert: the entry under the name is replaced.
Insert(map, h) == {g \in map : g.name # h.name} \cup {h}

\* ToolRegistry::get: HashMap::get(name).cloned()
Get(map, name) == CHOOSE h \in map : h.name = name

ToolOk == [ok |-> TRUE]

ToolErr(variant, name) == [ok |-> FALSE, err |-> variant, name |-> name]

\* register_tool(metadata, tool), under the write lock.
RegisterTool(name, version, executor) ==
    /\ toolCalls < MaxToolCalls
    /\ toolCalls' = toolCalls + 1
    /\ IF ContainsKey(tool_registry, name)
       THEN /\ toolRet' = [op |-> "register_tool", name |-> name,
                           version |-> version, executor |-> executor,
                           res |-> ToolErr("DuplicateTool", name)]
            /\ UNCHANGED tool_registry
       ELSE /\ tool_registry' = Insert(tool_registry,
                                       [name |-> name, version |-> version,
                                        executor |-> executor])
            /\ toolRet' = [op |-> "register_tool", name |-> name,
                           version |-> version, executor |-> executor,
                           res |-> ToolOk]
    /\ UNCHANGED toolRuns
    /\ UNCHANGED <<lcVars, schedVars, regVars, callVars, coreVars, msgVars>>

\* invoke(name, input): get(name) or UnknownTool, then the executor of the
\* handle runs and its result (Ok or an Execution error) is returned.
Invoke(name, ok) ==
    /\ toolCalls < MaxToolCalls
    /\ toolCalls' = toolCalls + 1
    /\ IF ~ContainsKey(tool_registry, name)
       THEN /\ toolRet' = [op |-> "invoke", name |-> name,
                           res |-> ToolErr("UnknownTool", name)]
            /\ UNCHANGED toolRuns
       ELSE /\ toolRuns' = Append(toolRuns, Get(tool_registry, name).executor)
            /\ toolRet' = [op |-> "invoke", name |-> name,
                           res |-> IF ok THEN ToolOk
                                   ELSE ToolErr("Execution", name)]
    /\ UNCHANGED tool_registry
    /\ UNCHANGED <<lcVars, schedVars, regVars, callVars, coreVars, msgVars>>

\* ToolRegistry::new()
InitTools ==
    /\ agent_id = 1
    /\ state = "Init"
    /\ lcFrom = None
    /\ lcEvent = None
    /\ lcRet = NoReturn
    /\ max_concurrency = 1
    /\ closed = FALSE
    /\ semClosed = FALSE
    /\ permits = max_concurrency
    /\ waiters = <<>>
    /\ pc = [t \in Tasks |-> "none"]
    /\ kind = [t \in Tasks |-> "none"]
    /\ nTasks = 0
    /\ inSpawn = 0
    /\ inClose = 0
    /\ closeReturned = FALSE
    /\ spawnRet = None
    /\ waitLog = <<>>
    /\ grantLog = <<>>
    /\ abortReq = [t \in Tasks |-> FALSE]
    /\ config = None
    /\ shutdown = FALSE
    /\ worker = 0
    /\ wpc = [t \in Tasks |-> None]
    /\ retry_delay = [t \in Tasks |-> 0]
    /\ failures = [t \in Tasks |-> 0]
    /\ lastArm = None
    /\ hookRet = None
    /\ lastReg = [t \in Tasks |-> None]
    /\ regFailRun = [t \in Tasks |-> 0]
    /\ hbFailRun = [t \in Tasks |-> 0]
    /\ payload = None
    /\ memory = FALSE
    /\ policy = None
    /\ cpc = None
    /\ ti = 0
    /\ oi = 0
    /\ messages = <<>>
    /\ tool_results = <<>>
    /\ volatile = <<>>
    /\ journal = <<>>
    /\ sink = <<>>
    /\ adapterIn = <<>>
    /\ callRet = None
    /\ trace = <<>>
    /\ policy_observer = None
    /\ notified = <<>>
    /\ events = <<>>
    /\ stream = <<>>
    /\ spos = 0
    /\ response = <<>>
    /\ streamRet = None
    /\ rules = <<>>
    /\ default_decision = "Allow"
    /\ ruleLog = <<>>
    /\ evaluated = FALSE
    /\ evalReq = None
    /\ evalRet = None
    /\ capacity = 1
    /\ max_total_bytes = 0
    /\ entries = <<>>
    /\ total_bytes = 0
    /\ pushes = <<>>
    /\ file_bytes = <<>>
    /\ file_lock = 0
    /\ apc = <<>>
    /\ arec = <<>>
    /\ nAppends = 0
    /\ appended = <<>>
    /\ failedAppend = FALSE
    /\ restarts = 0
    /\ tailLimit = 0
    /\ tailRet = None
    /\ vector_store = FALSE
    /\ bus_volatile = <<>>
    /\ bus_journal = <<>>
    /\ bus_index = {}
    /\ bpc = "idle"
    /\ brec = None
    /\ bret = None
    /\ writes = <<>>
    /\ nRecords = 0
    /\ points = <<>>
    /\ query = None
    /\ matches = None
    /\ recentRet = NoRecent
    /\ discarded = {}
    /\ clears = 0
    /\ clearFailed = FALSE
    /\ tool_registry = {}
    /\ toolCalls = 0
    /\ toolRet = NoToolCall
    /\ toolRuns = <<>>
    /\ accepted = {}
    /\ dispatched = {}
    /\ entry = FALSE
    /\ rcalls = <<>>
    /\ rules_lock = "free"
    /\ epc = "idle"
    /\ ei = 1
    /\ addCall = NoAdd
    /\ evalOn = {}

NextTools ==
    \/ \E name \in RegistryNames, version \in Versions,
          executor \in Executors : RegisterTool(name, version, executor)
    \/ \E name \in RegistryNames, ok \in BOOLEAN : Invoke(name, ok)

SpecTools == InitTools /\ [][NextTools]_vars

\* C34: a register_tool under a name that is present returns DuplicateTool
\* with that name and leaves the registry as it was; an invoke of a name
\* that is absent returns UnknownTool with that name and runs no executor;
\* and no call changes or removes a registration that exists.
C34_RegistryErrors ==
    [][toolCalls' # toolCalls =>
          /\ \A h \in tool_registry : h \in tool_registry'
          /\ (toolRet'.op = "register_tool"
              /\ ContainsKey(tool_registry, toolRet'.name)) =>
                 /\ toolRet'.res = ToolErr("DuplicateTool", toolRet'.name)
                 /\ tool_registry' = tool_registry
                 /\ toolRuns' = toolRuns
          /\ (toolRet'.op = "invoke"
              /\ ~ContainsKey(tool_registry, toolRet'.name)) =>
                 /\ toolRet'.res = ToolErr("UnknownTool", toolRet'.name)
                 /\ toolRuns' = toolRuns
                 /\ tool_registry' = tool_registry]_vars

\* "echo" is registered, and a second registration under the name, with
\* another version and another executor, has just failed.
C34_Witness ==
    /\ toolRet.op = "register_tool"
    /\ toolRet.name = "echo"
    /\ toolRet.res = ToolErr("DuplicateTool", "echo")
    /\ \E h \in tool_registry :
          /\ h.name = "echo"
          /\ h.version # toolRet.version
          /\ h.executor # toolRet.executor

\* With "echo" registered and run before, an invoke of "missing" failed.
C34_WitnessUnknown ==
    /\ toolRet.op = "invoke"
    /\ toolRet.res = ToolErr("UnknownTool", "missing")
    /\ ContainsKey(tool_registry, "echo")
    /\ toolRuns # <<>>

(***************************************************************************)
(* lib.rs: messages handed to the kernel.  handle_message dispatches on    *)
(* the caller's task; schedule_message spawns a task on the scheduler that *)
(* dispatches once it has its permit.  A task of kind "handler" is such a  *)
(* task.                                                                   *)
(***************************************************************************)
MaxMessages == 1

HandlerTasks == {t \in Tasks : kind[t] = "handler"}

\* AgentKernel::handle_message(message): the context is built and
\* dispatch_message is awaited.
HandleMessage ==
    /\ Cardinality({d \in dispatched : d.via = "handle_message"})
          < MaxMessages
    /\ dispatched' = dispatched \cup
                          {[via |-> "handle_message",
                            terminated |-> state = "Terminated"]}
    /\ UNCHANGED accepted
    /\ UNCHANGED <<lcVars, schedVars, regVars, callVars, coreVars, toolVars>>

\* AgentKernel::schedule_message(message): self.scheduler.spawn(..), which
\* returns Closed on a closed scheduler and else spawns the task.
ScheduleMessage ==
    /\ Cardinality(accepted) < MaxMessages
    /\ IF is_closed
       THEN /\ spawnRet' = "Closed"
            /\ UNCHANGED <<pc, kind, nTasks, accepted>>
       ELSE /\ NewTask("handler")
            /\ pc' = [pc EXCEPT ![nTasks + 1] = "spawned"]
            /\ spawnRet' = "Ok"
            /\ accepted' = accepted \cup
                                {[task |-> nTasks + 1,
                                  terminated |-> state = "Terminated"]}
    /\ UNCHANGED <<max_concurrency, closed, semClosed, permits, waiters,
                   inSpawn, inClose, closeReturned, waitLog, grantLog,
                   abortReq>>
    /\ UNCHANGED dispatched
    /\ UNCHANGED <<lcVars, regVars, callVars, coreVars, toolVars>>

\* Whether the message of task t was accepted in the Terminated state.
AcceptedTerminated(t) == (CHOOSE a \in accepted : a.task = t).terminated

\* The body of the spawned task: dispatch_message(handler, ctx).await; the
\* handler returns (or panics) and the permit is dropped.
HandlerReturn(t, outcome) ==
    /\ pc[t] = "running"
    /\ kind[t] = "handler"
    /\ LeaveWithPermit(t, outcome, ReleasedOn(outcome))
    /\ dispatched' = dispatched \cup
                          {[via |-> "schedule_message",
                            terminated |-> AcceptedTerminated(t)]}
    /\ UNCHANGED <<max_concurrency, closed, semClosed, kind, nTasks, inSpawn,
                   inClose, closeReturned, spawnRet, waitLog, abortReq>>
    /\ UNCHANGED accepted
    /\ UNCHANGED <<lcVars, regVars, callVars, coreVars, toolVars>>

\* A step of the runtime for task t, handler tasks included, with a
\* directory that answers every register and heartbeat call with Ok.
MsgTaskStep(t) ==
    \/ PollFirst(t)
    \/ PollGranted(t)
    \/ WorkerTop(t)
    \/ WorkerRegister(t, TRUE)
    \/ WorkerHbTop(t)
    \/ WorkerTick(t)
    \/ WorkerHeartbeat(t, TRUE)
    \/ DeregisterDone(t)
    \/ \E outcome \in {"done", "userPanic"} : HandlerReturn(t, outcome)

\* The kernel with its controller on a scheduler that is never closed,
\* given lifecycle events and messages in any order.
NextKernelMsg ==
    \/ \E e \in LifecycleEvent : KernelTransition(e)
    \/ \E t \in Tasks : MsgTaskStep(t)
    \/ \E t \in Tasks : Cancel(t)
    \/ HandleMessage
    \/ ScheduleMessage

\* The runtime keeps polling every task that can make a step, and every
\* handler returns.
FairKernelMsg ==
    /\ \A t \in Tasks : WF_vars(MsgTaskStep(t))
    /\ \A t \in Tasks : WF_vars(Cancel(t))

SpecKernelMsg == InitKernel /\ [][NextKernelMsg]_vars /\ FairKernelMsg

\* C35: no message handed to handle_message or schedule_message while the
\* lifecycle is Terminated is dispatched to the handler.
C35_NoDispatchAfterTerminated ==
    \A d \in dispatched : ~d.terminated

\* The agent is Terminated, and a message of each kind that came in after
\* that was dispatched.
C35_Witness ==
    /\ state = "Terminated"
    /\ [via |-> "handle_message", terminated |-> TRUE] \in dispatched
    /\ [via |-> "schedule_message", terminated |-> TRUE] \in dispatched

\* What the code does: the lifecycle state plays no part.  On the open
\* scheduler every schedule_message call is accepted in whatever state.
C35_AcceptedInAnyState ==
    [][(accepted' # accepted \/ dispatched' # dispatched) =>
           /\ state' = state
           /\ accepted' # accepted => spawnRet' = "Ok"]_vars

\* Task t carries a message and has not reached the handler yet.
Pending(t) == kind[t] = "handler" /\ pc[t] \in {"spawned", "waiting", "granted"}

\* C38: while the agent is Ready or Active, every message accepted by
\* schedule_message eventually starts executing, for every max_concurrency.
C38_AcceptedStarts ==
    ((\E t \in Tasks : Pending(t)) /\ state \in {"Ready", "Active"}) ~>
        ((\A t \in Tasks : ~Pending(t)) \/ state \notin {"Ready", "Active"})

\* One permit, held by the registration worker in its heartbeat loop; the
\* agent is Active and an accepted message waits for the permit.
C38_Witness ==
    /\ max_concurrency = 1
    /\ state = "Active"
    /\ worker # 0
    /\ pc[worker] = "running"
    /\ IsWorkerAt(worker, "heartbeat")
    /\ \E t \in Tasks : kind[t] = "handler" /\ waiters = <<t>>

(***************************************************************************)
(* Further claims about the kernel's transition (checked under SpecKernel).*)
(***************************************************************************)
\* AgentKernel::transition(e) is called and returns an error.
FailedTransition(e) ==
    /\ lcEvent' = e
    /\ KernelTransition(e)
    /\ KernelRet' # "Ok"

\* C36: whenever AgentKernel::transition returns an error, the lifecycle
\* state is the one before the call and the registration controller is
\* unchanged: no worker started or aborted, no deregister scheduled, the
\* shutdown flag as it was.
C36_AllOrNothing ==
    [][\A e \in LifecycleEvent :
          FailedTransition(e) =>
              /\ state' = state
              /\ UNCHANGED <<shutdown, worker, nTasks, kind, pc, abortReq>>
      ]_vars

\* Boot with a registration config that validate() rejects: transition
\* returned InvalidConfig, and the lifecycle is Ready.
C36_Witness ==
    /\ lcFrom = "Init"
    /\ lcEvent = "Boot"
    /\ KernelRet = "InvalidConfig"
    /\ state = "Ready"
    /\ worker = 0

\* Retire on a closed scheduler: transition returned Closed, the lifecycle
\* is Retiring, the shutdown flag is set and the worker handle is kept.
C36_WitnessClosed ==
    /\ lcEvent = "Retire"
    /\ KernelRet = "Closed"
    /\ state = "Retiring"
    /\ shutdown
    /\ worker # 0

\* What does hold: a transition the lifecycle rejects changes nothing, and
\* a failing registry hook starts or aborts no task; but the lifecycle has
\* moved by then, and the Retiring | Terminated arm has set the flag.
C36_HookFailureKeepsTasks ==
    [][\A e \in LifecycleEvent :
          FailedTransition(e) =>
              /\ UNCHANGED <<worker, nTasks, kind, pc, abortReq>>
              /\ KernelRet' = "InvalidTransition" =>
                     state' = state /\ shutdown' = shutdown
              /\ KernelRet' # "InvalidTransition" =>
                     /\ state' = LcStateAfter(state, e)
                     /\ shutdown' =
                            (shutdown \/ state' \in {"Retiring", "Terminated"})
      ]_vars

(***************************************************************************)
(* Further claims about removal from the directory (SpecKernel, and        *)
(* SpecKernelOpen for what happens eventually).                            *)
(***************************************************************************)
\* A deregister call was made: a deregister task has run.
DeregisterIssued == \E d \in Tasks : kind[d] = "dereg" /\ pc[d] = "done"

\* A worker issues a register or a heartbeat call.
WorkerCalls ==
    \E t \in Tasks, ok \in BOOLEAN :
        WorkerRegister(t, ok) \/ WorkerHeartbeat(t, ok)

\* C37: once the lifecycle is Retiring or Terminated and the deregister
\* call was issued, the worker issues no register or heartbeat call, in any
\* interleaving of worker, deregister task and transition.
C37_RemovalIsFinal ==
    [][(state \in {"Retiring", "Terminated"} /\ DeregisterIssued)
           => ~WorkerCalls]_vars

\* The agent retired, its one deregister task has run and its worker is
\* gone, and the directory holds an entry: a register call came after the
\* deregister call.
C37_Witness ==
    /\ state = "Retiring"
    /\ Cardinality(DeregisterTasks) = 1
    /\ DeregisterIssued
    /\ \A t \in Tasks : pc[t] \notin Live
    /\ entry

\* The second half of C37, as stated: the directory ends up without an
\* entry for a retired agent, for good.
C37_EntryGoes ==
    (state \in {"Retiring", "Terminated"}) ~> [](~entry)

(***************************************************************************)
(* Further claims about the memory bus (checked under SpecBusConc).        *)
(***************************************************************************)
\* The record() calls that returned Ok.
Succeeded == {c \in 1..Len(rcalls) : rcalls[c].at = "ok"}

\* Record r comes before record s in q, which holds both.
Before(q, r, s) == IndexOf(q, r) < IndexOf(q, s)

\* C39: two records written by concurrent record() calls that both
\* succeeded are in the same relative order in the ring and in the journal.
C39_SameOrder ==
    \A a \in Succeeded, b \in Succeeded :
        (Holds(bus_volatile, RecordOfCall(a)) /\ Holds(bus_volatile, RecordOfCall(b)))
            => (Before(bus_volatile, RecordOfCall(a), RecordOfCall(b))
                    <=> Before(bus_journal, RecordOfCall(a), RecordOfCall(b)))

\* Two concurrent calls have both returned Ok without eviction or journal
\* error; the ring holds their records in one order, the journal in the
\* other.
C39_Witness ==
    /\ Succeeded = {1, 2}
    /\ Len(rcalls) = 2
    /\ bus_volatile = <<RecordOfCall(1), RecordOfCall(2)>>
    /\ bus_journal = <<RecordOfCall(2), RecordOfCall(1)>>

\* What does hold: every record of a call that returned Ok is in the
\* journal exactly once.
C39_EachRecordedOnce ==
    \A c \in Succeeded :
        Cardinality({k \in 1..Len(bus_journal) :
                        bus_journal[k] = RecordOfCall(c)}) = 1

(***************************************************************************)
(* Further claims about the policy engine (checked under SpecEngineConc).  *)
(***************************************************************************)
\* Some rule of rs matches the request.
MatchedIn(rs, req) ==
    \E k \in 1..Len(rs) : MatcherMatches(rs[k].matcher, req)

\* The evaluate() call has returned what an evaluation of one of the rule
\* lists that existed between its call and its return gives.
EvaluatedOnWholeList ==
    epc = "done" =>
        \E rs \in evalOn :
            evalRet = EvaluateFrom(rs, default_decision, evalReq, 1)

\* C40: add_rule only appends: it does not change the decision of any
\* request that a rule present before it matches; and an evaluate() that
\* runs concurrently with add_rule returns the decision computed on the
\* list before or on the list after the addition.
C40_AppendOnly ==
    /\ []EvaluatedOnWholeList
    /\ [][rules' # rules =>
             /\ IsPrefix(rules, rules')
             /\ Len(rules') = Len(rules) + 1
             /\ \A req \in SmallRequests :
                    MatchedIn(rules, req) =>
                        EvaluateFrom(rules', default_decision, req, 1)
                          = EvaluateFrom(rules, default_decision, req, 1)
       ]_vars

\* A rule was added between the call and the return of evaluate(); it
\* matches the request too, with another decision, and evaluate() returned
\* the decision of the first rule.
C40_Witness ==
    /\ epc = "done"
    /\ Cardinality(evalOn) = 2
    /\ Len(rules) >= 2
    /\ MatcherMatches(rules[1].matcher, evalReq)
    /\ MatcherMatches(rules[Len(rules)].matcher, evalReq)
    /\ rules[Len(rules)].decision # rules[1].decision
    /\ evalRet = rules[1].decision

=============================================================================
